---- MODULE Spec2Model ----
(***************************************************************************)
(* Fine-tuning pipeline orchestrator of fine_tune_service:                 *)
(*   - the progress extractor FineTuneService._parse_and_report_progress,  *)
(*   - the outcome classifier FineTuneService.is_mlx_error,                *)
(*   - the process runner (_read_process_output_with_timeout,              *)
(*     _read_process_output_with_progress, and the runner of               *)
(*     fine_tune_package/fine_tune.py),                                    *)
(*   - the pipeline state machine run_fine_tuning_pipeline over the        *)
(*     DatabaseInterface task-status store.                                *)
(*                                                                         *)
(* Text that the code searches (output lines, stderr) is a sequence of     *)
(* one-character strings, so that Python's `in` and re.search are real     *)
(* searches. Progress is kept in tenths of a percent (Python computes it   *)
(* as a float: 50 + pct * 0.1, 60 + k / 100 * 30).                         *)
(*                                                                         *)
(* In the pipeline the run of the fine-tuning command is summarised by     *)
(* its observable steps (a line read and parsed or only appended, the      *)
(* exit, the timeout, the failed spawn); the runner itself is SpecRunner.  *)
(***************************************************************************)
EXTENDS Integers, Sequences, FiniteSets, TLC

VARIABLES
    \* ---- outcome classifier (is_mlx_error) ----
    cls_stderr,      \* the stderr text handed to is_mlx_error
    cls_rc,          \* the return code handed to is_mlx_error
    cls_result,      \* "pending", or the verdict: "failure" / "no_failure"
    \* ---- process runner ----
    run_path,        \* "select" (POSIX branch), "poll" (Windows branch), "legacy"
    run_cb,          \* whether a progress callback was given
    run_timeout,     \* timeout_seconds
    run_pc,          \* the runner's position
    run_ready,       \* the streams select() returned as ready
    now,             \* time.time() - start_time, in seconds
    run_out,         \* stdout_output / stderr_output: the lines appended, per stream
    run_parsed,      \* ghost: the lines handed to _parse_and_report_progress, per stream
    run_kill_log,    \* ghost: the termination requests made, in order
    run_result,      \* the returned (return code, stdout, stderr)
    child_state,     \* "not_started", "running", "exited"
    child_script,    \* what the child still has to write
    child_hangs,     \* the child never exits by itself
    child_rc,        \* process.returncode once the child has exited
    pipe,            \* the lines in each OS pipe
    written,         \* ghost: every line the child wrote, per stream
    \* ---- pipeline and task-status store ----
    pc,              \* position of each run of run_fine_tuning_pipeline
    tasks,           \* finetune_tasks: the row of each task id
    task_order,      \* the task ids in the order of created_at
    config,          \* the finetune_master_table row: "ok", "missing", "no_output_dir"
    master,          \* finetune_master_table.status ("absent" without a row)
    faults,          \* database calls that have raised so far
    exc,             \* the exception e caught by the failure handler, per run
    propagated,      \* the exception that left the task function, per run
    hist,            \* ghost: the distinct status values persisted, per task
    regressed,       \* ghost: a write stored less progress than the row had, per task
    h_current,       \* current_progress, current_step of the failure handler
    ft,              \* the fine-tuning process: lines read, stderr so far
    \* ---- functions applied to bounded inputs ----
    batch,           \* _get_optimal_batch_size: its inputs and its result
    split,           \* create_data_files: its inputs and the three lists written
    resolve,         \* _get_working_model: the request, the registry, the result
    package,         \* create_ollama_compatible_model: its position and commands
    extract          \* _parse_and_report_progress: a line and its event

clsVars == <<cls_stderr, cls_rc, cls_result>>

runnerVars == <<run_path, run_cb, run_timeout, run_pc, run_ready, now, run_out,
                run_parsed, run_kill_log, run_result>>

childVars == <<child_state, child_script, child_hangs, child_rc, pipe, written>>

runVars == <<runnerVars, childVars>>

pipeVars == <<pc, tasks, task_order, config, master, faults, exc, propagated,
              hist, regressed, h_current, ft>>

fnVars == <<batch, split, resolve, package, extract>>

vars == <<clsVars, runVars, pipeVars, fnVars>>

notRunVars == <<clsVars, pipeVars, fnVars>>

notClsVars == <<runVars, pipeVars, fnVars>>

notPipeVars == <<clsVars, runVars, fnVars>>

notBatchVars == <<clsVars, runVars, pipeVars, split, resolve, package, extract>>

notSplitVars == <<clsVars, runVars, pipeVars, batch, resolve, package, extract>>

notResolveVars == <<clsVars, runVars, pipeVars, batch, split, package, extract>>

notExtractVars == <<clsVars, runVars, pipeVars, batch, split, resolve, package>>

notPackageVars == <<clsVars, runVars, pipeVars, batch, split, resolve, extract>>

(***************************************************************************)
(* Text                                                                    *)
(***************************************************************************)

\* Python's None where a string, a dict or a row is expected
None == "None"

\* Python: pat in txt
Contains(pat, txt) ==
    \E i \in 0..(Len(txt) - Len(pat)) : SubSeq(txt, i + 1, i + Len(pat)) = pat

RECURSIVE Concat(_)
\* ''.join(parts)
Concat(parts) ==
    IF parts = <<>> THEN <<>> ELSE Head(parts) \o Concat(Tail(parts))

(***************************************************************************)
(* Progress extractor: FineTuneService._parse_and_report_progress          *)
(***************************************************************************)

Digits == <<"0", "1", "2", "3", "4", "5", "6", "7", "8", "9">>

IsDigit(c) == \E d \in DOMAIN Digits : Digits[d] = c

DigitValue(c) == (CHOOSE d \in DOMAIN Digits : Digits[d] = c) - 1

\* \s
IsSpace(c) == c \in {" ", "\t", "\n", "\r", "\f"}

UpperCase == <<"A", "B", "C", "D", "E", "F", "G", "H", "I", "J", "K", "L", "M",
               "N", "O", "P", "Q", "R", "S", "T", "U", "V", "W", "X", "Y", "Z">>

LowerCase == <<"a", "b", "c", "d", "e", "f", "g", "h", "i", "j", "k", "l", "m",
               "n", "o", "p", "q", "r", "s", "t", "u", "v", "w", "x", "y", "z">>

LowerChar(c) ==
    IF \E i \in DOMAIN UpperCase : UpperCase[i] = c
    THEN LowerCase[CHOOSE i \in DOMAIN UpperCase : UpperCase[i] = c]
    ELSE c

\* str.lower()
Lower(txt) == [i \in DOMAIN txt |-> LowerChar(txt[i])]

\* int(digits)
RECURSIVE ParseInt(_)
ParseInt(ds) ==
    IF ds = <<>> THEN 0
    ELSE 10 * ParseInt(SubSeq(ds, 1, Len(ds) - 1)) + DigitValue(ds[Len(ds)])

\* str(n) for n >= 0
RECURSIVE IntText(_)
IntText(n) ==
    IF n < 10 THEN <<Digits[n + 1]>>
    ELSE IntText(n \div 10) \o <<Digits[(n % 10) + 1]>>

\* txt has pat at position i
HasAt(txt, i, pat) ==
    /\ i >= 1
    /\ i + Len(pat) - 1 <= Len(txt)
    /\ SubSeq(txt, i, i + Len(pat) - 1) = pat

\* The position after the longest run of digits (of white space) that starts
\* at position i.
RECURSIVE DigitsEnd(_, _)
DigitsEnd(txt, i) ==
    IF i <= Len(txt) /\ IsDigit(txt[i]) THEN DigitsEnd(txt, i + 1) ELSE i

RECURSIVE SpacesEnd(_, _)
SpacesEnd(txt, i) ==
    IF i <= Len(txt) /\ IsSpace(txt[i]) THEN SpacesEnd(txt, i + 1) ELSE i

\* r'Fetching \d+ files:\s*(\d+)%' matched at position i; the positions of
\* group 1 are PctFrom(..) .. PctTo(..) - 1.
PctFrom(txt, i) ==
    SpacesEnd(txt, DigitsEnd(txt, i + Len(<<"F","e","t","c","h","i","n","g"," ">>)) + Len(<<" ","f","i","l","e","s",":">>))

PctTo(txt, i) == DigitsEnd(txt, PctFrom(txt, i))

DownloadMatchAt(txt, i) ==
    LET d1 == i + Len(<<"F","e","t","c","h","i","n","g"," ">>)
        d2 == DigitsEnd(txt, d1)
    IN  /\ HasAt(txt, i, <<"F","e","t","c","h","i","n","g"," ">>)
        /\ d2 > d1
        /\ HasAt(txt, d2, <<" ","f","i","l","e","s",":">>)
        /\ PctTo(txt, i) > PctFrom(txt, i)
        /\ HasAt(txt, PctTo(txt, i), <<"%">>)

\* r'Iter (\d+):' matched at position i
IterMatchAt(txt, i) ==
    LET d1 == i + Len(<<"I","t","e","r"," ">>)
        d2 == DigitsEnd(txt, d1)
    IN  /\ HasAt(txt, i, <<"I","t","e","r"," ">>)
        /\ d2 > d1
        /\ HasAt(txt, d2, <<":">>)

\* re.search: the leftmost position with a match, 0 without one
RECURSIVE DownloadSearch(_, _)
DownloadSearch(txt, i) ==
    IF i > Len(txt) THEN 0
    ELSE IF DownloadMatchAt(txt, i) THEN i
    ELSE DownloadSearch(txt, i + 1)

RECURSIVE IterSearch(_, _)
IterSearch(txt, i) ==
    IF i > Len(txt) THEN 0
    ELSE IF IterMatchAt(txt, i) THEN i
    ELSE IterSearch(txt, i + 1)

\* Python's None where a number is expected
NoProgress == -1

\* Progress is kept in tenths of a percent.
Pct(p) == p * 10

Min(a, b) == IF a <= b THEN a ELSE b

\* Assume 100 iterations total
total_iters == 100

completion_patterns ==
    << <<"T","r","a","i","n","i","n","g"," ","c","o","m","p","l","e","t","e">>,
       <<"F","i","n","e","-","t","u","n","i","n","g"," ","c","o","m","p","l","e","t","e">>,
       <<"A","d","a","p","t","e","r","s"," ","s","a","v","e","d">>,
       <<"T","r","a","i","n","i","n","g"," ","f","i","n","i","s","h","e","d">>,
       <<"D","o","n","e">>,
       <<"F","i","n","i","s","h","e","d"," ","t","r","a","i","n","i","n","g">> >>

NoEvent == [kind |-> "none", progress |-> NoProgress, step |-> "None"]

\* A plausible slip: the cap of the iteration rule is left out.
IterationProgress_uncapped(current_iter) ==
    Pct(60) + (current_iter * Pct(30)) \div total_iters

\* min(95, 60 + (current_iter / total_iters * 30))
IterationProgress(current_iter) ==
    Min(Pct(95), Pct(60) + (current_iter * Pct(30)) \div total_iters)

\* A plausible slip: the completion phrases are tried before the save rule.
ParseProgress_completion_first(line) ==
    IF DownloadSearch(line, 1) # 0
    THEN LET i == DownloadSearch(line, 1)
             progress == ParseInt(SubSeq(line, PctFrom(line, i), PctTo(line, i) - 1))
         IN  [kind |-> "download",
              progress |-> Pct(50) + progress,
              step |-> "Downloading model files: " \o ToString(progress) \o "%"]
    ELSE IF IterSearch(line, 1) # 0
    THEN LET i == IterSearch(line, 1)
             d1 == i + Len(<<"I","t","e","r"," ">>)
             current_iter == ParseInt(SubSeq(line, d1, DigitsEnd(line, d1) - 1))
         IN  [kind |-> "iteration",
              progress |-> IterationProgress(current_iter),
              step |-> "Training iteration " \o ToString(current_iter) \o "/"
                       \o ToString(total_iters)]
    ELSE IF Contains(<<"V","a","l","i","d","a","t","i","o","n">>, line) \/ Contains(<<"V","a","l"," ","l","o","s","s">>, line)
    THEN [kind |-> "validation", progress |-> NoProgress, step |-> "Running validation..."]
    ELSE IF \E k \in DOMAIN completion_patterns :
                Contains(Lower(completion_patterns[k]), Lower(line))
    THEN [kind |-> "completion", progress |-> Pct(100),
          step |-> "Fine-tuning completed successfully"]
    ELSE IF Contains(<<"S","a","v","i","n","g">>, line) \/ Contains(<<"s","a","v","e","d">>, Lower(line))
    THEN [kind |-> "save", progress |-> Pct(95), step |-> "Saving model..."]
    ELSE NoEvent

\* A validation marker: a line with "Validation" or "Val loss" that neither
\* the download rule nor the iteration rule matches.
IsValidationMarker(line) ==
    /\ Contains(<<"V","a","l","i","d","a","t","i","o","n">>, line) \/ Contains(<<"V","a","l"," ","l","o","s","s">>, line)
    /\ DownloadSearch(line, 1) = 0
    /\ IterSearch(line, 1) = 0

\* The call of the callback that _parse_and_report_progress makes for a line:
\* the first rule that matches, or none.
ParseProgress(line) ==
    IF DownloadSearch(line, 1) # 0
    THEN LET i == DownloadSearch(line, 1)
             progress == ParseInt(SubSeq(line, PctFrom(line, i), PctTo(line, i) - 1))
         IN  [kind |-> "download",
              progress |-> Pct(50) + progress,
              step |-> "Downloading model files: " \o ToString(progress) \o "%"]
    ELSE IF IterSearch(line, 1) # 0
    THEN LET i == IterSearch(line, 1)
             d1 == i + Len(<<"I","t","e","r"," ">>)
             current_iter == ParseInt(SubSeq(line, d1, DigitsEnd(line, d1) - 1))
         IN  [kind |-> "iteration",
              progress |-> IterationProgress(current_iter),
              step |-> "Training iteration " \o ToString(current_iter) \o "/"
                       \o ToString(total_iters)]
    ELSE IF Contains(<<"V","a","l","i","d","a","t","i","o","n">>, line) \/ Contains(<<"V","a","l"," ","l","o","s","s">>, line)
    THEN [kind |-> "validation", progress |-> NoProgress, step |-> "Running validation..."]
    ELSE IF Contains(<<"S","a","v","i","n","g">>, line) \/ Contains(<<"s","a","v","e","d">>, Lower(line))
    THEN [kind |-> "save", progress |-> Pct(95), step |-> "Saving model..."]
    ELSE IF \E k \in DOMAIN completion_patterns :
                Contains(Lower(completion_patterns[k]), Lower(line))
    THEN [kind |-> "completion", progress |-> Pct(100),
          step |-> "Fine-tuning completed successfully"]
    ELSE NoEvent

(***************************************************************************)
(* Outcome classifier: FineTuneService.is_mlx_error                        *)
(***************************************************************************)

error_indicators ==
    << <<"E","r","r","o","r",":">>,
       <<"E","x","c","e","p","t","i","o","n",":">>,
       <<"F","a","i","l","e","d"," ","t","o">>,
       <<"C","a","n","n","o","t">>,
       <<"N","o"," ","s","u","c","h"," ","f","i","l","e">>,
       <<"P","e","r","m","i","s","s","i","o","n"," ","d","e","n","i","e","d">>,
       <<"O","u","t"," ","o","f"," ","m","e","m","o","r","y">>,
       <<"C","U","D","A"," ","e","r","r","o","r">>,
       <<"R","u","n","t","i","m","e","E","r","r","o","r">>,
       <<"V","a","l","u","e","E","r","r","o","r">>,
       <<"F","i","l","e","N","o","t","F","o","u","n","d","E","r","r","o","r">>,
       <<"R","e","p","o","s","i","t","o","r","y"," ","n","o","t"," ","f","o","u","n","d">>,
       <<"M","o","d","e","l"," ","n","o","t"," ","f","o","u","n","d">>,
       <<"A","c","c","e","s","s"," ","d","e","n","i","e","d">>,
       <<"4","0","1"," ","C","l","i","e","n","t"," ","E","r","r","o","r">>,
       <<"4","0","4"," ","C","l","i","e","n","t"," ","E","r","r","o","r">>,
       <<"T","y","p","e","E","r","r","o","r",":">>,
       <<"q","u","e","r","y","_","p","r","e","_","a","t","t","n","_","s","c","a","l","a","r">>,
       <<"m","i","s","s","i","n","g"," ","1"," ","r","e","q","u","i","r","e","d"," ","p","o","s","i","t","i","o","n","a","l"," ","a","r","g","u","m","e","n","t">> >>

HasErrorIndicator(stderr) ==
    \E i \in DOMAIN error_indicators : Contains(error_indicators[i], stderr)

\* A plausible slip: the early return for exit code 0 is missing.
is_mlx_error_no_zero_return(stderr, return_code) ==
    IF HasErrorIndicator(stderr) THEN TRUE
    ELSE IF Contains(<<"F","e","t","c","h","i","n","g">>, stderr) /\ Contains(<<"0","%">>, stderr)
            /\ return_code # 0 THEN TRUE
    ELSE IF Contains(<<"F","e","t","c","h","i","n","g">>, stderr) /\ Contains(<<"1","0","0","%">>, stderr) THEN FALSE
    ELSE return_code # 0

\* A plausible slip: the progress-output rule is tried before the indicators.
is_mlx_error_progress_first(stderr, return_code) ==
    IF return_code = 0 THEN FALSE
    ELSE IF Contains(<<"F","e","t","c","h","i","n","g">>, stderr) /\ Contains(<<"1","0","0","%">>, stderr) THEN FALSE
    ELSE IF HasErrorIndicator(stderr) THEN TRUE
    ELSE return_code # 0

is_mlx_error(stderr, return_code) ==
    IF return_code = 0 THEN FALSE
    ELSE IF HasErrorIndicator(stderr) THEN TRUE
    ELSE IF Contains(<<"F","e","t","c","h","i","n","g">>, stderr) /\ Contains(<<"0","%">>, stderr)
            /\ return_code # 0 THEN TRUE
    ELSE IF Contains(<<"F","e","t","c","h","i","n","g">>, stderr) /\ Contains(<<"1","0","0","%">>, stderr) THEN FALSE
    ELSE return_code # 0

\* ---- inputs of the classifier specification ----

\* Pieces of stderr text: every error indicator, download markers at several
\* percentages, a training line and plain text.
StderrFragments ==
    { error_indicators[i] : i \in DOMAIN error_indicators } \cup
    { <<"F","e","t","c","h","i","n","g"," ","3"," ","f","i","l","e","s",":"," ","0","%","|">>,
      <<"F","e","t","c","h","i","n","g"," ","3"," ","f","i","l","e","s",":"," ","3","3","%","|">>,
      <<"F","e","t","c","h","i","n","g"," ","3"," ","f","i","l","e","s",":"," ","5","0","%","|">>,
      <<"F","e","t","c","h","i","n","g"," ","3"," ","f","i","l","e","s",":"," ","1","0","0","%","|">>,
      <<"I","t","e","r"," ","1","0",":"," ","T","r","a","i","n"," ","l","o","s","s"," ","2",".","3","4","5","\n">>,
      <<" ","h","e","l","l","o"," ","w","o","r","l","d","\n">> }

\* Number of fragments a stderr text is made of, at most.
MaxFrags == 2

ExitCodes == {-1, 0, 1, 2}

FragmentSeqs(n) == UNION { [1..k -> StderrFragments] : k \in 0..n }

StderrTexts == { Concat(fs) : fs \in FragmentSeqs(MaxFrags) }

ClsInit ==
    /\ cls_stderr \in StderrTexts
    /\ cls_rc \in ExitCodes
    /\ cls_result = "pending"

ClsIdle ==
    /\ cls_stderr = <<>>
    /\ cls_rc = 0
    /\ cls_result = "idle"

Classify ==
    /\ cls_result = "pending"
    /\ cls_result' = IF is_mlx_error(cls_stderr, cls_rc) THEN "failure" ELSE "no_failure"
    /\ UNCHANGED <<cls_stderr, cls_rc>>
    /\ UNCHANGED notClsVars

(***************************************************************************)
(* Process runner                                                          *)
(*   select path: FineTuneService._read_process_output_with_progress and   *)
(*                _read_process_output_with_timeout, HAS_SELECT branch     *)
(*   poll path:   the same two methods, Windows / no-select branch         *)
(*   legacy path: fine_tune_package/fine_tune.py run_command_with_live_output *)
(* A pipe holds whole lines; the child blocks when the pipe is full.       *)
(***************************************************************************)

Streams == {"stdout", "stderr"}

Other(s) == IF s = "stdout" THEN "stderr" ELSE "stdout"

\* time.sleep(2) between the graceful request and the force-kill
GracePeriod == 2

\* Lines an OS pipe holds before the writer blocks.
PipeCap == 1

\* Lines a child writes, at most.
MaxWrites == 2

\* The largest value time.time() - start_time is read as at the top of a loop.
MaxClock == 3

TimeoutChoices == {1, 2}

\* f"Command timed out after {timeout_seconds} seconds"
TimeoutMessage(timeout_seconds) ==
    "Command timed out after " \o ToString(timeout_seconds) \o " seconds"

\* The i-th line a child writes; "" is a blank line (only a line end).
LineText(i, blank) == IF i = blank THEN "" ELSE "L" \o ToString(i)

\* What a child writes: up to MaxWrites lines, each to either stream, at most
\* one of them blank.
ChildScripts ==
    UNION { { [i \in 1..k |-> [stream |-> f[i], line |-> LineText(i, b)]]
              : f \in [1..k -> Streams], b \in 0..k }
            : k \in 0..MaxWrites }

\* line.strip() is non-empty
RECURSIVE NonBlank(_)
NonBlank(lines) ==
    IF lines = <<>> THEN <<>>
    ELSE IF Head(lines) = "" THEN NonBlank(Tail(lines))
    ELSE <<Head(lines)>> \o NonBlank(Tail(lines))

EmptyStreams == [s \in Streams |-> <<>>]

RunInit ==
    /\ run_path \in {"select", "poll", "legacy"}
    /\ run_cb \in (IF run_path = "legacy" THEN {FALSE} ELSE BOOLEAN)
    /\ run_timeout \in (IF run_path = "legacy" THEN {0} ELSE TimeoutChoices)
    /\ run_pc = "spawn"
    /\ run_ready = {}
    /\ now = 0
    /\ run_out = EmptyStreams
    /\ run_parsed = EmptyStreams
    /\ run_kill_log = <<>>
    /\ run_result = [rc |-> 0, stdout |-> <<>>, stderr |-> <<>>]
    /\ child_state = "not_started"
    /\ child_script \in ChildScripts
    /\ child_hangs \in BOOLEAN
    /\ child_rc = 0
    /\ pipe = EmptyStreams
    /\ written = EmptyStreams

RunIdle ==
    /\ run_path = "select"
    /\ run_cb = FALSE
    /\ run_timeout = 0
    /\ run_pc = "idle"
    /\ run_ready = {}
    /\ now = 0
    /\ run_out = EmptyStreams
    /\ run_parsed = EmptyStreams
    /\ run_kill_log = <<>>
    /\ run_result = [rc |-> 0, stdout |-> <<>>, stderr |-> <<>>]
    /\ child_state = "not_started"
    /\ child_script = <<>>
    /\ child_hangs = FALSE
    /\ child_rc = 0
    /\ pipe = EmptyStreams
    /\ written = EmptyStreams

\* ---- the child ----

ChildWrite ==
    /\ child_state = "running"
    /\ child_script # <<>>
    /\ LET w == Head(child_script) IN
         /\ Len(pipe[w.stream]) < PipeCap
         /\ pipe' = [pipe EXCEPT ![w.stream] = Append(@, w.line)]
         /\ written' = [written EXCEPT ![w.stream] = Append(@, w.line)]
    /\ child_script' = Tail(child_script)
    /\ UNCHANGED <<child_state, child_hangs, child_rc, runnerVars>>
    /\ UNCHANGED notRunVars

ChildExit ==
    /\ child_state = "running"
    /\ child_script = <<>>
    /\ ~child_hangs
    /\ child_state' = "exited"
    /\ child_rc' \in {0, 1}
    /\ UNCHANGED <<child_script, child_hangs, pipe, written, runnerVars>>
    /\ UNCHANGED notRunVars

\* ---- run_command_with_progress_callback / run_command_with_live_output ----

FirstPc(path) ==
    CASE path = "select" -> "sel_top"
      [] path = "poll"   -> "pl_top"
      [] OTHER           -> "lg_stdout"

\* subprocess.Popen(...); the service's runners catch its exception
RunSpawn ==
    /\ run_pc = "spawn"
    /\ \/ /\ child_state' = "running"
          /\ run_pc' = FirstPc(run_path)
          /\ UNCHANGED run_result
       \/ /\ run_path # "legacy"
          /\ child_state' = "not_started"
          /\ run_pc' = "done"
          /\ run_result' = [rc |-> -1, stdout |-> <<>>,
                            stderr |-> <<"Command execution error">>]
    /\ UNCHANGED <<run_path, run_cb, run_timeout, run_ready, now, run_out, run_parsed,
                   run_kill_log, child_script, child_hangs, child_rc, pipe, written>>
    /\ UNCHANGED notRunVars

\* ---- reading ----

\* select() reports a stream with data, or at end of file
Readable(s) == pipe[s] # <<>> \/ child_state = "exited"

\* What one readline() on stream s does to the pipe and the accumulated
\* output; it blocks while the pipe is empty and the child still runs.
\* `parse`: the line is handed to _parse_and_report_progress.
ReadLineEffect(s, parse) ==
    /\ Readable(s)
    /\ IF pipe[s] # <<>>
       THEN /\ pipe' = [pipe EXCEPT ![s] = Tail(@)]
            /\ run_out' = [run_out EXCEPT ![s] = Append(@, Head(pipe[s]))]
            /\ run_parsed' = IF parse
                             THEN [run_parsed EXCEPT ![s] = Append(@, Head(pipe[s]))]
                             ELSE run_parsed
       ELSE UNCHANGED <<pipe, run_out, run_parsed>>

\* if process.<s> in ready: line = process.<s>.readline(); if line: ...
ReadIfReady(s, parse) ==
    IF s \in run_ready THEN ReadLineEffect(s, parse)
    ELSE UNCHANGED <<pipe, run_out, run_parsed>>

\* remaining = process.<s>.read() for both streams once the child has exited.
\* `parse`: the non-blank lines of the remainder are handed to the parser.
ReadRemaining(parse) ==
    /\ pipe' = EmptyStreams
    /\ run_out' = [s \in Streams |-> run_out[s] \o pipe[s]]
    /\ run_parsed' = IF parse
                     THEN [s \in Streams |-> run_parsed[s] \o NonBlank(pipe[s])]
                     ELSE run_parsed

\* The select branch does not parse what remains at exit.
ParsesRemainder(path) == path = "poll"

Returned(rc, out) == [rc |-> rc, stdout |-> out["stdout"], stderr |-> out["stderr"]]

\* ---- select path ----

\* current_time = time.time(): any time may have passed since the last reading
ClockReadings == { t \in 0..MaxClock : t >= now } \cup {now}

\* if current_time - start_time > timeout_seconds
TimedOut(elapsed) == elapsed > run_timeout

SelTop ==
    /\ run_pc = "sel_top"
    /\ now' \in ClockReadings
    /\ run_pc' = IF TimedOut(now') THEN "to_term_g" ELSE "sel_select"
    /\ UNCHANGED <<run_path, run_cb, run_timeout, run_ready, run_out, run_parsed,
                   run_kill_log, run_result, childVars>>
    /\ UNCHANGED notRunVars

\* select.select([stdout, stderr], [], [], 1.0)
SelSelect ==
    /\ run_pc = "sel_select"
    /\ LET r == {s \in Streams : Readable(s)} IN
         \/ /\ r # {}
            /\ run_ready' = r
            /\ run_pc' = "sel_stdout"
            /\ UNCHANGED now
         \/ /\ r = {}
            /\ run_ready' = {}
            /\ now' = now + 1
            /\ run_pc' = "sel_poll"
    /\ UNCHANGED <<run_path, run_cb, run_timeout, run_out, run_parsed, run_kill_log,
                   run_result, childVars>>
    /\ UNCHANGED notRunVars

SelReadStdout ==
    /\ run_pc = "sel_stdout"
    /\ ReadIfReady("stdout", run_cb)
    /\ run_pc' = "sel_stderr"
    /\ UNCHANGED <<run_path, run_cb, run_timeout, run_ready, now, run_kill_log,
                   run_result, child_state, child_script, child_hangs, child_rc, written>>
    /\ UNCHANGED notRunVars

SelReadStderr ==
    /\ run_pc = "sel_stderr"
    /\ ReadIfReady("stderr", run_cb)
    /\ run_pc' = "sel_poll"
    /\ UNCHANGED <<run_path, run_cb, run_timeout, run_ready, now, run_kill_log,
                   run_result, child_state, child_script, child_hangs, child_rc, written>>
    /\ UNCHANGED notRunVars

\* if process.poll() is not None: read what remains and leave the loop
SelPoll ==
    /\ run_pc = "sel_poll"
    /\ IF child_state = "exited"
       THEN /\ ReadRemaining(run_cb /\ ParsesRemainder(run_path))
            /\ run_result' = Returned(child_rc, run_out')
            /\ run_pc' = "done"
       ELSE /\ run_pc' = "sel_top"
            /\ UNCHANGED <<pipe, run_out, run_parsed, run_result>>
    /\ UNCHANGED <<run_path, run_cb, run_timeout, run_ready, now, run_kill_log,
                   child_state, child_script, child_hangs, child_rc, written>>
    /\ UNCHANGED notRunVars

\* ---- poll path ----

PlTop ==
    /\ run_pc = "pl_top"
    /\ now' \in ClockReadings
    /\ run_pc' = IF TimedOut(now') THEN "to_term_c" ELSE "pl_poll"
    /\ UNCHANGED <<run_path, run_cb, run_timeout, run_ready, run_out, run_parsed,
                   run_kill_log, run_result, childVars>>
    /\ UNCHANGED notRunVars

\* if process.poll() is not None: read and parse what remains; else sleep
PlPoll ==
    /\ run_pc = "pl_poll"
    /\ IF child_state = "exited"
       THEN /\ ReadRemaining(run_cb /\ ParsesRemainder(run_path))
            /\ run_result' = Returned(child_rc, run_out')
            /\ run_pc' = "done"
       ELSE /\ run_pc' = "pl_top"
            /\ UNCHANGED <<pipe, run_out, run_parsed, run_result>>
    /\ UNCHANGED <<run_path, run_cb, run_timeout, run_ready, now, run_kill_log,
                   child_state, child_script, child_hangs, child_rc, written>>
    /\ UNCHANGED notRunVars

\* ---- timeout: graceful request, grace period, force-kill ----

\* One termination request: the signal, whom it is for, the clock, whether the
\* child was running, and whether the signal went out (os.killpg may raise;
\* process.terminate() does nothing once the child is known to have exited).
KillEntry(sig, target, sent) ==
    [sig |-> sig, target |-> target, at |-> now,
     alive |-> child_state = "running", sent |-> sent]

\* A plausible slip: the force-kill is sent without looking at process.poll().
MustKill_unchecked == TRUE

\* if process.poll() is None: ... SIGKILL
MustKill == child_state = "running"

\* return -1, ''.join(stdout_output), f"Command timed out after ..."
TimeoutResult ==
    [rc |-> -1, stdout |-> run_out["stdout"], stderr |-> <<TimeoutMessage(run_timeout)>>]

\* os.killpg(os.getpgid(process.pid), signal.SIGTERM); either call may raise
ToTermGroup ==
    /\ run_pc = "to_term_g"
    /\ \/ /\ run_kill_log' = Append(run_kill_log, KillEntry("SIGTERM", "group", TRUE))
          /\ \/ UNCHANGED <<child_state, child_rc>>
             \/ /\ child_state = "running"
                /\ child_state' = "exited"
                /\ child_rc' = -15
          /\ run_pc' = "to_grace_g"
       \/ /\ run_kill_log' = Append(run_kill_log, KillEntry("SIGTERM", "group", FALSE))
          /\ run_pc' = "to_term_c"
          /\ UNCHANGED <<child_state, child_rc>>
    /\ UNCHANGED <<run_path, run_cb, run_timeout, run_ready, now, run_out, run_parsed,
                   run_result, child_script, child_hangs, pipe, written>>
    /\ UNCHANGED notRunVars

ToGraceGroup ==
    /\ run_pc = "to_grace_g"
    /\ now' = now + GracePeriod
    /\ run_pc' = "to_kill_g"
    /\ UNCHANGED <<run_path, run_cb, run_timeout, run_ready, run_out, run_parsed,
                   run_kill_log, run_result, childVars>>
    /\ UNCHANGED notRunVars

\* if process.poll() is None: os.killpg(..., signal.SIGKILL); may raise
ToKillGroup ==
    /\ run_pc = "to_kill_g"
    /\ IF MustKill
       THEN \/ /\ run_kill_log' = Append(run_kill_log, KillEntry("SIGKILL", "group", TRUE))
               /\ child_state' = "exited"
               /\ child_rc' = IF child_state = "running" THEN -9 ELSE child_rc
               /\ run_pc' = "to_return"
            \/ /\ run_kill_log' = Append(run_kill_log, KillEntry("SIGKILL", "group", FALSE))
               /\ run_pc' = "to_term_c"
               /\ UNCHANGED <<child_state, child_rc>>
       ELSE /\ run_pc' = "to_return"
            /\ UNCHANGED <<run_kill_log, child_state, child_rc>>
    /\ UNCHANGED <<run_path, run_cb, run_timeout, run_ready, now, run_out, run_parsed,
                   run_result, child_script, child_hangs, pipe, written>>
    /\ UNCHANGED notRunVars

\* process.terminate(): a no-op once the child has been seen to have exited
ToTermChild ==
    /\ run_pc = "to_term_c"
    /\ run_kill_log' = Append(run_kill_log,
                              KillEntry("SIGTERM", "child", child_state = "running"))
    /\ \/ UNCHANGED <<child_state, child_rc>>
       \/ /\ child_state = "running"
          /\ child_state' = "exited"
          /\ child_rc' = -15
    /\ run_pc' = "to_grace_c"
    /\ UNCHANGED <<run_path, run_cb, run_timeout, run_ready, now, run_out, run_parsed,
                   run_result, child_script, child_hangs, pipe, written>>
    /\ UNCHANGED notRunVars

ToGraceChild ==
    /\ run_pc = "to_grace_c"
    /\ now' = now + GracePeriod
    /\ run_pc' = "to_kill_c"
    /\ UNCHANGED <<run_path, run_cb, run_timeout, run_ready, run_out, run_parsed,
                   run_kill_log, run_result, childVars>>
    /\ UNCHANGED notRunVars

\* if process.poll() is None: process.kill()
ToKillChild ==
    /\ run_pc = "to_kill_c"
    /\ IF MustKill
       THEN /\ run_kill_log' = Append(run_kill_log, KillEntry("SIGKILL", "child", TRUE))
            /\ child_state' = "exited"
            /\ child_rc' = IF child_state = "running" THEN -9 ELSE child_rc
       ELSE UNCHANGED <<run_kill_log, child_state, child_rc>>
    /\ run_pc' = "to_return"
    /\ UNCHANGED <<run_path, run_cb, run_timeout, run_ready, now, run_out, run_parsed,
                   run_result, child_script, child_hangs, pipe, written>>
    /\ UNCHANGED notRunVars

ToReturn ==
    /\ run_pc = "to_return"
    /\ run_result' = TimeoutResult
    /\ run_pc' = "done"
    /\ UNCHANGED <<run_path, run_cb, run_timeout, run_ready, now, run_out, run_parsed,
                   run_kill_log, childVars>>
    /\ UNCHANGED notRunVars

\* ---- legacy path: fine_tune_package run_command_with_live_output ----

\* stdout_line = process.stdout.readline()
LgReadStdout ==
    /\ run_pc = "lg_stdout"
    /\ ReadLineEffect("stdout", FALSE)
    /\ run_pc' = "lg_stderr"
    /\ UNCHANGED <<run_path, run_cb, run_timeout, run_ready, now, run_kill_log,
                   run_result, child_state, child_script, child_hangs, child_rc, written>>
    /\ UNCHANGED notRunVars

\* stderr_line = process.stderr.readline()
LgReadStderr ==
    /\ run_pc = "lg_stderr"
    /\ ReadLineEffect("stderr", FALSE)
    /\ run_pc' = "lg_poll"
    /\ UNCHANGED <<run_path, run_cb, run_timeout, run_ready, now, run_kill_log,
                   run_result, child_state, child_script, child_hangs, child_rc, written>>
    /\ UNCHANGED notRunVars

\* if process.poll() is not None: break  (what is left in the pipes is not read)
LgPoll ==
    /\ run_pc = "lg_poll"
    /\ IF child_state = "exited"
       THEN /\ run_result' = Returned(child_rc, run_out)
            /\ run_pc' = "done"
       ELSE /\ run_pc' = "lg_stdout"
            /\ UNCHANGED run_result
    /\ UNCHANGED <<run_path, run_cb, run_timeout, run_ready, now, run_out, run_parsed,
                   run_kill_log, childVars>>
    /\ UNCHANGED notRunVars

RunNext ==
    \/ RunSpawn
    \/ SelTop \/ SelSelect \/ SelReadStdout \/ SelReadStderr \/ SelPoll
    \/ PlTop \/ PlPoll
    \/ ToTermGroup \/ ToGraceGroup \/ ToKillGroup
    \/ ToTermChild \/ ToGraceChild \/ ToKillChild \/ ToReturn
    \/ LgReadStdout \/ LgReadStderr \/ LgPoll
    \/ ChildWrite \/ ChildExit

(***************************************************************************)
(* Batch size clamp: FineTuneService._get_optimal_batch_size               *)
(***************************************************************************)

Max(a, b) == IF a >= b THEN a ELSE b

\* Lines in a split file, at most.
MaxSplitSize == 3

\* Requested batch size, at most.
MaxBatch == 5

\* A plausible slip: the result is not raised to 1.
optimal_batch_size_unfloored(train_size, valid_size, test_size, requested_batch_size, readable) ==
    IF readable
    THEN Min(requested_batch_size, Min(train_size, Min(valid_size, test_size)))
    ELSE Min(4, requested_batch_size)

\* _get_optimal_batch_size for split files of the given line counts
\* (count_lines gives 0 for a missing file); `readable` is FALSE when counting
\* raises and the except branch answers.
optimal_batch_size(train_size, valid_size, test_size, requested_batch_size, readable) ==
    IF readable
    THEN LET min_size == Min(train_size, Min(valid_size, test_size))
         IN  Max(1, Min(requested_batch_size, min_size))
    ELSE Min(4, requested_batch_size)

BatchInit ==
    /\ batch \in [train_size : 0..MaxSplitSize,
                  valid_size : 0..MaxSplitSize,
                  test_size : 0..MaxSplitSize,
                  requested_batch_size : 1..MaxBatch,
                  readable : BOOLEAN,
                  done : {FALSE},
                  result : {0}]

BatchIdle ==
    batch = [train_size |-> 0, valid_size |-> 0, test_size |-> 0,
             requested_batch_size |-> 1, readable |-> TRUE, done |-> TRUE,
             result |-> 0]

GetOptimalBatchSize ==
    /\ ~batch.done
    /\ batch' = [batch EXCEPT
                    !.done = TRUE,
                    !.result = optimal_batch_size(batch.train_size, batch.valid_size,
                                                  batch.test_size,
                                                  batch.requested_batch_size,
                                                  batch.readable)]
    /\ UNCHANGED notBatchVars

BatchNext == GetOptimalBatchSize

(***************************************************************************)
(* Dataset split: create_data_files                                        *)
(***************************************************************************)

\* Records in a dataset (len(all_data)), at most.
MaxRecords == 10

\* Percentages a configuration may hold for a split.
Percents == {0, 10, 20, 33, 60, 100}

\* int(n / d) for d > 0: the quotient truncated toward zero
TruncDiv(n, d) == IF n >= 0 THEN n \div d ELSE -((-n) \div d)

\* seq[a:b] for 0 <= a, 0 <= b
Slice(seq, a, b) == SubSeq(seq, Min(a, Len(seq)) + 1, Min(b, Len(seq)))

\* all_data before the shuffle: the records, numbered
Records(total) == [i \in 1..total |-> i]

\* Outcomes of random.shuffle(all_data): the rotations of the list and of its
\* reversal.
Shuffles(total) ==
    { [i \in 1..total |-> ((i + k - 1) % total) + 1] : k \in 0..(total - 1) } \cup
    { [i \in 1..total |-> total - ((i + k - 1) % total)] : k \in 0..(total - 1) } \cup
    { Records(total) }

\* A plausible slip: the train slice starts after the test records only.
create_data_files_train_overlaps(all_data, test_percent, valid_percent) ==
    LET total == Len(all_data)
        test_size == TruncDiv(total * test_percent, 100)
        valid_size == TruncDiv(total * valid_percent, 100)
    IN  [test_data |-> Slice(all_data, 0, test_size),
         valid_data |-> Slice(all_data, test_size, test_size + valid_size),
         train_data |-> Slice(all_data, test_size, total)]

\* The three lists create_data_files writes for the shuffled all_data.
create_data_files(all_data, test_percent, valid_percent) ==
    LET total == Len(all_data)
        test_size == TruncDiv(total * test_percent, 100)
        valid_size == TruncDiv(total * valid_percent, 100)
    IN  [test_data |-> Slice(all_data, 0, test_size),
         valid_data |-> Slice(all_data, test_size, test_size + valid_size),
         train_data |-> Slice(all_data, test_size + valid_size, total)]

NoFiles == [test_data |-> <<>>, valid_data |-> <<>>, train_data |-> <<>>]

SplitInit ==
    /\ split \in [total : 0..MaxRecords,
                  test_percent : Percents,
                  valid_percent : Percents,
                  done : {FALSE},
                  files : {NoFiles}]

SplitIdle ==
    split = [total |-> 0, test_percent |-> 0, valid_percent |-> 0, done |-> TRUE,
             files |-> NoFiles]

CreateSplitFiles ==
    /\ ~split.done
    /\ \E all_data \in Shuffles(split.total) :
          split' = [split EXCEPT
                       !.done = TRUE,
                       !.files = create_data_files(all_data, split.test_percent,
                                                   split.valid_percent)]
    /\ UNCHANGED notSplitVars

SplitNext == CreateSplitFiles

(***************************************************************************)
(* Model resolution: FineTuneService._get_working_model                    *)
(***************************************************************************)

\* s.startswith(prefix)
StartsWith(s, prefix) ==
    Len(s) >= Len(prefix) /\ SubSeq(s, 1, Len(prefix)) = prefix

\* s.replace(old, ""): every occurrence of old is removed, left to right
RECURSIVE Remove(_, _)
Remove(s, old) ==
    IF Len(s) < Len(old) THEN s
    ELSE IF StartsWith(s, old) THEN Remove(SubSeq(s, Len(old) + 1, Len(s)), old)
    ELSE SubSeq(s, 1, 1) \o Remove(SubSeq(s, 2, Len(s)), old)

conversions ==
    << <<"mistralai/Mistral-7B-v0.1", "mlx-community/mistral-7B-v0.1">>,
       <<"mistralai/Mistral-7B-Instruct-v0.1", "mlx-community/Mistral-7B-Instruct-v0.1">>,
       <<"mistralai/Mistral-7B-Instruct-v0.2", "mlx-community/Mistral-7B-Instruct-v0.2">>,
       <<"mistralai/Mistral-7B-Instruct-v0.3", "mlx-community/Mistral-7B-Instruct-v0.3-4bit">>,
       <<"meta-llama/Llama-2-7b-chat-hf", "mlx-community/Llama-2-7b-chat-4bit">>,
       <<"meta-llama/Llama-2-7b-hf", "mlx-community/Llama-2-7b-4bit">>,
       <<"meta-llama/Meta-Llama-3-8B-Instruct", "mlx-community/Meta-Llama-3-8B-Instruct-4bit">>,
       <<"meta-llama/Meta-Llama-3.1-8B-Instruct", "mlx-community/Llama-3.1-8B-Instruct-4bit">>,
       <<"meta-llama/Llama-3.2-1B-Instruct", "mlx-community/Llama-3.2-1B-Instruct-4bit">>,
       <<"meta-llama/Llama-3.2-3B-Instruct", "mlx-community/Llama-3.2-3B-Instruct-4bit">> >>

\* _convert_to_mlx_model(model_name)
convert_to_mlx_model(model_name) ==
    IF StartsWith(model_name, "mlx-community/") THEN model_name
    ELSE IF \E k \in DOMAIN conversions : conversions[k][1] = model_name
    THEN conversions[CHOOSE k \in DOMAIN conversions : conversions[k][1] = model_name][2]
    ELSE IF StartsWith(model_name, "mistralai/")
    THEN "mlx-community/" \o Remove(model_name, "mistralai/")
    ELSE IF StartsWith(model_name, "meta-llama/")
    THEN "mlx-community/" \o Remove(model_name, "meta-llama/") \o "-4bit"
    ELSE model_name

\* What the HEAD request of the existence probe may come to.
ProbeOutcomes == {"200", "302", "404", "raises"}

\* _validate_model_exists(model_name) against a registry that gives the
\* outcome of the probe of each identifier
validate_model_exists(registry, model_name) ==
    IF registry[model_name] = "raises" THEN TRUE
    ELSE registry[model_name] = "200"

\* A plausible slip: the fallback is returned without its probe.
get_working_model_unprobed_fallback(registry, original_model) ==
    IF validate_model_exists(registry, original_model) THEN original_model
    ELSE LET mlx_model == convert_to_mlx_model(original_model) IN
         IF mlx_model # original_model THEN mlx_model ELSE None

\* _get_working_model(original_model)
get_working_model(registry, original_model) ==
    IF validate_model_exists(registry, original_model) THEN original_model
    ELSE LET mlx_model == convert_to_mlx_model(original_model) IN
         IF mlx_model # original_model /\ validate_model_exists(registry, mlx_model)
         THEN mlx_model
         ELSE None

\* The requested identifiers: every key of the table, one identifier for each
\* prefix rule, and identifiers without a conversion.
ModelNames ==
    { conversions[k][1] : k \in DOMAIN conversions } \cup
    { "mistralai/Mixtral-8x7B-v0.1",
      "mistralai/forks/mistralai/Mistral-7B",
      "meta-llama/Llama-3.3-70B-Instruct",
      "mlx-community/Llama-3.2-1B-Instruct-4bit",
      "google/gemma-2b" }

ResolveInit ==
    \E original_model \in ModelNames :
        /\ resolve \in [original_model : {original_model},
                        registry : [{original_model, convert_to_mlx_model(original_model)}
                                        -> ProbeOutcomes],
                        done : {FALSE},
                        result : {None}]

ResolveIdle ==
    resolve = [original_model |-> None, registry |-> <<>>, done |-> TRUE,
               result |-> None]

GetWorkingModel ==
    /\ ~resolve.done
    /\ resolve' = [resolve EXCEPT
                      !.done = TRUE,
                      !.result = get_working_model(resolve.registry,
                                                   resolve.original_model)]
    /\ UNCHANGED notResolveVars

ResolveNext == GetWorkingModel

(***************************************************************************)
(* Model packaging: FineTuneService.create_ollama_compatible_model         *)
(***************************************************************************)

type_mapping ==
    << <<"llama3.2", "llama3.2:3b">>,
       <<"llama3.1", "llama3.2:3b">>,
       <<"llama3", "llama3.2:3b">>,
       <<"llama", "llama2:7b">>,
       <<"mistral", "mistral:7b">>,
       <<"custom", "llama3.2:3b">> >>

\* _get_ollama_model_from_type(model_type), for a model_type in lower case
get_ollama_model_from_type(model_type) ==
    IF \E k \in DOMAIN type_mapping : type_mapping[k][1] = model_type
    THEN type_mapping[CHOOSE k \in DOMAIN type_mapping : type_mapping[k][1] = model_type][2]
    ELSE "llama3.2:3b"

ModelTypes == {"llama3.2", "llama3.1", "llama3", "llama", "mistral", "custom", "phi"}

\* The result of a function that has not returned
NoResult == [returned |-> FALSE, return_code |-> 0, stderr |-> ""]

PackageInit ==
    package \in [model_type : ModelTypes,
                 adapter_file : BOOLEAN,        \* adapters.safetensors exists
                 pc : {"start"},
                 commands : {<<>>},             \* the ollama commands run
                 enhanced : {NoResult},         \* result of _create_enhanced_system_model
                 result : {NoResult}]

PackageIdle ==
    package = [model_type |-> None, adapter_file |-> FALSE, pc |-> "idle",
               commands |-> <<>>, enhanced |-> NoResult, result |-> NoResult]

\* return of create_ollama_compatible_model
PackageReturn(return_code, stderr) ==
    [package EXCEPT !.pc = "returned",
                    !.result = [returned |-> TRUE, return_code |-> return_code,
                                stderr |-> stderr]]

\* From the entry to the first ollama command: the working directory, the
\* adapter check and the Modelfile. The branch of a missing adapter file
\* evaluates the name ollama_base, which is bound nowhere: the NameError is
\* caught by the except clause of the function.
PackagePrepare ==
    /\ package.pc = "start"
    /\ \E fs_ok \in BOOLEAN :
          package' =
              IF ~fs_ok
              THEN PackageReturn(-1, "Error creating Ollama-compatible model: OSError")
              ELSE IF ~package.adapter_file
              THEN PackageReturn(-1, "Error creating Ollama-compatible model: name 'ollama_base' is not defined")
              ELSE [package EXCEPT !.pc = "create"]
    /\ UNCHANGED notPackageVars

\* ollama create model_name -f Modelfile
PackageCreate ==
    /\ package.pc = "create"
    /\ \E return_code \in {-1, 0, 1} :
          package' = [package EXCEPT
                         !.commands = Append(@,
                             [argv |-> "create FROM "
                                       \o get_ollama_model_from_type(package.model_type)
                                       \o " ADAPTER",
                              return_code |-> return_code]),
                         !.pc = IF return_code = 0 THEN "test" ELSE "enhanced"]
    /\ UNCHANGED notPackageVars

\* _test_ollama_model(model_name); the model that fails is removed
PackageTest ==
    /\ package.pc = "test"
    /\ \E test_return_code \in {0, 1} :
          package' =
              IF test_return_code = 0
              THEN PackageReturn(0, "")
              ELSE [package EXCEPT !.commands =
                                       Append(@, [argv |-> "rm", return_code |-> 0]),
                                   !.pc = "enhanced"]
    /\ UNCHANGED notPackageVars

\* _create_enhanced_system_model(fallback_model, model_dir, model_name): its
\* result is the result of create_ollama_compatible_model
PackageEnhanced ==
    /\ package.pc = "enhanced"
    /\ \E fs_ok \in BOOLEAN, return_code \in {-1, 0, 1} :
          LET enhanced ==
                  IF fs_ok
                  THEN [returned |-> TRUE, return_code |-> return_code,
                        stderr |-> IF return_code = 0 THEN "" ELSE "ollama create failed"]
                  ELSE [returned |-> TRUE, return_code |-> -1,
                        stderr |-> "Error creating enhanced system model: OSError"]
          IN  package' = [package EXCEPT
                             !.commands = IF fs_ok
                                 THEN Append(@,
                                     [argv |-> "create FROM "
                                         \o get_ollama_model_from_type(package.model_type),
                                      return_code |-> return_code])
                                 ELSE @,
                             !.enhanced = enhanced,
                             !.pc = "returned",
                             !.result = enhanced]
    /\ UNCHANGED notPackageVars

PackageNext ==
    \/ PackagePrepare
    \/ PackageCreate
    \/ PackageTest
    \/ PackageEnhanced

(***************************************************************************)
(* Progress extractor applied to single lines                              *)
(***************************************************************************)

MaxIter == 120

MaxMarkers == 2

\* str(k) padded with zeros to three digits, as mlx_lm prints "Iter 050:"
Pad3(k) ==
    IF k < 10 THEN <<"0","0">> \o IntText(k)
    ELSE IF k < 100 THEN <<"0">> \o IntText(k)
    ELSE IntText(k)

\* The pieces a line of the fine-tuning process is made of; k is the number
\* printed by the pieces that have one.
Markers ==
    {"download", "iter", "iter_padded", "val_loss", "validation", "saving",
     "adapters_saved", "complete", "lower_done", "other"}

MarkerText(m, k) ==
    CASE m = "download"       -> <<"F","e","t","c","h","i","n","g"," ","3"," ","f","i","l","e","s",":"," ">> \o IntText(k) \o <<"%","|">>
      [] m = "iter"           -> <<"I","t","e","r"," ">> \o IntText(k) \o <<":"," ","T","r","a","i","n"," ","l","o","s","s"," ","2",".","3","4","5">>
      [] m = "iter_padded"    -> <<"I","t","e","r"," ">> \o Pad3(k) \o <<":"," ","T","r","a","i","n"," ","l","o","s","s"," ","2",".","3","4","5">>
      [] m = "val_loss"       -> <<"V","a","l"," ","l","o","s","s"," ","1",".","2","3","4">>
      [] m = "validation"     -> <<"V","a","l","i","d","a","t","i","o","n">>
      [] m = "saving"         -> <<"S","a","v","i","n","g"," ","m","o","d","e","l">>
      [] m = "adapters_saved" -> <<"A","d","a","p","t","e","r","s"," ","s","a","v","e","d">>
      [] m = "complete"       -> <<"T","r","a","i","n","i","n","g"," ","c","o","m","p","l","e","t","e">>
      [] m = "lower_done"     -> <<"a","l","l"," ","d","o","n","e",".">>
      [] m = "other"          -> <<"h","e","l","l","o"," ","w","o","r","l","d">>

RECURSIVE LineOf(_, _)
LineOf(shape, k) ==
    IF shape = <<>> THEN <<"\n">>
    ELSE <<" ">> \o MarkerText(Head(shape), k) \o LineOf(Tail(shape), k)

\* Sequences of 1..n markers
RECURSIVE Shapes(_)
Shapes(n) ==
    IF n = 0 THEN {}
    ELSE { <<m>> : m \in Markers } \cup Shapes(n - 1) \cup
         { Append(s, m) : s \in Shapes(n - 1), m \in Markers }

ExtractInit ==
    extract \in
        [shape : Shapes(MaxMarkers), k : {50}, done : {FALSE}, event : {NoEvent}]
        \cup
        [shape : {<<"iter">>, <<"iter_padded">>, <<"download">>}, k : 0..MaxIter,
         done : {FALSE}, event : {NoEvent}]

ExtractIdle ==
    extract = [shape |-> <<>>, k |-> 0, done |-> TRUE, event |-> NoEvent]

\* _parse_and_report_progress(line, callback, source): the call of the
\* callback it makes
ParseAndReport ==
    /\ ~extract.done
    /\ extract' = [extract EXCEPT
                      !.done = TRUE,
                      !.event = ParseProgress(LineOf(extract.shape, extract.k))]
    /\ UNCHANGED notExtractVars

ExtractNext == ParseAndReport

(***************************************************************************)
(* Task-status store: DatabaseInterface                                    *)
(***************************************************************************)

\* Celery task ids (self.request.id). All runs are for the same config_id.
TaskIds == {"task-1", "task-2"}

NoRow ==
    [status |-> "absent", current_step |-> None, progress |-> NoProgress,
     error |-> None, metrics |-> None, result |-> None]

RowExists(t) == tasks[t].status # "absent"

\* The row create_task inserts.
NewTaskRow(status) ==
    [status |-> status, current_step |-> "Initializing", progress |-> 0,
     error |-> None, metrics |-> None, result |-> None]

\* A plausible slip: the error column is not stored.
UpdatedRow_drops_error(row, status, current_step, progress, error, metrics, result) ==
    [status |-> status,
     current_step |-> IF current_step # None THEN current_step ELSE row.current_step,
     progress |-> IF progress # NoProgress THEN progress ELSE row.progress,
     error |-> row.error,
     metrics |-> IF metrics # None THEN metrics ELSE row.metrics,
     result |-> IF result # None THEN result ELSE row.result]

\* The row update_task_status leaves for an existing row.
UpdatedRow(row, status, current_step, progress, error, metrics, result) ==
    [status |-> status,
     current_step |-> IF current_step # None THEN current_step ELSE row.current_step,
     progress |-> IF progress # NoProgress THEN progress ELSE row.progress,
     error |-> IF error # None THEN error ELSE row.error,
     metrics |-> IF metrics # None THEN metrics ELSE row.metrics,
     result |-> IF result # None THEN result ELSE row.result]

\* get_task_status(config_id): the most recently created row of the
\* configuration, or none.
LatestRow ==
    IF task_order = <<>> THEN NoRow ELSE tasks[task_order[Len(task_order)]]

\* ---- exceptions, by their text ----

DbError(site) == "SQLAlchemyError in " \o site

TaskNotFound(t) == "Task " \o t \o " not found"

NoException == "no exception"

(***************************************************************************)
(* Pipeline: run_fine_tuning_pipeline                                      *)
(***************************************************************************)

\* Database calls that fail (connection lost, commit refused), at most.
MaxFaults == 1

\* Output lines of the fine-tuning process that the runner reads, at most.
MaxLines == 2

\* mlx_timeout
mlx_timeout == 7200

\* f"Command timed out after {timeout_seconds} seconds", as text to search
TimeoutText(timeout_seconds) ==
    <<"C","o","m","m","a","n","d"," ","t","i","m","e","d"," ","o","u","t"," ","a","f","t","e","r"," ">> \o IntText(timeout_seconds) \o <<" ","s","e","c","o","n","d","s">>

\* The lines the fine-tuning process may print.
OutputLines ==
    { [stream |-> "stderr", text |-> <<"F","e","t","c","h","i","n","g"," ","3"," ","f","i","l","e","s",":"," ","0","%","|","\n">>],
      [stream |-> "stderr", text |-> <<"F","e","t","c","h","i","n","g"," ","3"," ","f","i","l","e","s",":"," ","1","0","0","%","|","\n">>],
      [stream |-> "stderr", text |-> <<"F","e","t","c","h","i","n","g"," ","1","2"," ","f","i","l","e","s",":"," "," ","6","0","0","%","|","\n">>],
      [stream |-> "stdout", text |-> <<"I","t","e","r"," ","5","0",":"," ","T","r","a","i","n"," ","l","o","s","s"," ","2",".","3","4","5","\n">>],
      [stream |-> "stdout", text |-> <<"I","t","e","r"," ","2","0","0",":"," ","T","r","a","i","n"," ","l","o","s","s"," ","1",".","1","\n">>],
      [stream |-> "stdout", text |-> <<"I","t","e","r"," ","1","0",":"," ","V","a","l"," ","l","o","s","s"," ","1",".","2","\n">>],
      [stream |-> "stdout", text |-> <<"V","a","l"," ","l","o","s","s"," ","2",".","1","\n">>],
      [stream |-> "stdout", text |-> <<"S","a","v","i","n","g"," ","m","o","d","e","l","\n">>],
      [stream |-> "stdout", text |-> <<"A","d","a","p","t","e","r","s"," ","s","a","v","e","d","\n">>],
      [stream |-> "stdout", text |-> <<"T","r","a","i","n","i","n","g"," ","c","o","m","p","l","e","t","e","\n">>],
      [stream |-> "stdout", text |-> <<"h","e","l","l","o"," ","w","o","r","l","d","\n">>],
      [stream |-> "stderr", text |-> <<"E","r","r","o","r",":"," ","b","o","o","m","\n">>] }

\* A plausible slip: the callback persists a status of its own.
progress_callback_own_status(row, progress, step_description) ==
    UpdatedRow(row, "TRAINING", step_description, progress, None, None, None)

\* A plausible slip: a missing percentage is passed on as 0 (`progress or 0`).
progress_callback_zero_for_none(row, progress, step_description) ==
    UpdatedRow(row, "FINETUNING", step_description,
               IF progress = NoProgress THEN 0 ELSE progress, None, None, None)

\* The row progress_callback(progress, step_description) leaves.
progress_callback(row, progress, step_description) ==
    UpdatedRow(row, "FINETUNING", step_description, progress, None, None, None)

\* error_message of the failure handler
FailureMessage(current_step, e) == "Failed at '" \o current_step \o "': " \o e

\* The text as a string
RECURSIVE Str(_)
Str(txt) == IF txt = <<>> THEN "" ELSE Head(txt) \o Str(Tail(txt))

\* txt.strip()
RECURSIVE Strip(_)
Strip(txt) ==
    IF txt = <<>> THEN txt
    ELSE IF IsSpace(Head(txt)) THEN Strip(Tail(txt))
    ELSE IF IsSpace(txt[Len(txt)]) THEN Strip(SubSeq(txt, 1, Len(txt) - 1))
    ELSE txt

\* txt.split('\n')
RECURSIVE SplitLines(_, _)
SplitLines(txt, cur) ==
    IF txt = <<>> THEN <<cur>>
    ELSE IF Head(txt) = "\n" THEN <<cur>> \o SplitLines(Tail(txt), <<>>)
    ELSE SplitLines(Tail(txt), Append(cur, Head(txt)))

\* sep.join(parts)
RECURSIVE Join(_, _)
Join(sep, parts) ==
    IF parts = <<>> THEN <<>>
    ELSE IF Len(parts) = 1 THEN parts[1]
    ELSE parts[1] \o sep \o Join(sep, Tail(parts))

\* The markers of an actual error line in the message of the pipeline
message_indicators ==
    << <<"E","r","r","o","r",":">>, <<"E","x","c","e","p","t","i","o","n",":">>, <<"F","a","i","l","e","d">>, <<"C","a","n","n","o","t">>, <<"R","u","n","t","i","m","e","E","r","r","o","r">>,
       <<"V","a","l","u","e","E","r","r","o","r">> >>

\* [line.strip() for line in stderr.split('\n') if line.strip()], then the
\* lines with a marker
RECURSIVE ActualErrors(_)
ActualErrors(lines) ==
    IF lines = <<>> THEN <<>>
    ELSE LET line == Strip(Head(lines)) IN
         IF line # <<>> /\ \E k \in DOMAIN message_indicators :
                                Contains(message_indicators[k], line)
         THEN <<line>> \o ActualErrors(Tail(lines))
         ELSE ActualErrors(Tail(lines))

\* seq[-n:]
LastN(seq, n) ==
    IF Len(seq) <= n THEN seq ELSE SubSeq(seq, Len(seq) - n + 1, Len(seq))

\* The exception raised for a non-zero result (return_code, stderr) of
\* execute_fine_tuning
FineTuningFailed(return_code, stderr) ==
    LET actual_errors == ActualErrors(SplitLines(stderr, <<>>))
        excerpt == IF actual_errors # <<>>
                   THEN Join(<<";"," ">>, LastN(actual_errors, 3))
                   ELSE IF Contains(<<"T","r","a","c","e","b","a","c","k">>, stderr)
                   THEN <<"P","y","t","h","o","n"," ","e","x","c","e","p","t","i","o","n"," ","o","c","c","u","r","r","e","d"," ","(","c","h","e","c","k"," ","l","o","g","s"," ","f","o","r"," ","d","e","t","a","i","l","s",")">>
                   ELSE LastN(stderr, 500)
    IN  "Fine-tuning failed with return code " \o ToString(return_code)
        \o (IF stderr # <<>> THEN ": " \o Str(excerpt) ELSE "")

\* execute_fine_tuning of a run: the lines read from the process, the text of
\* its stderr, whether an exception of the callback was caught and dropped,
\* whether the line just read was a validation marker handed to
\* _parse_and_report_progress (false again once reading is over), whether
\* _get_working_model returned a model, the result (return_code, stderr) of
\* the runner once the command has run, and the code execute_fine_tuning
\* returned (sequences that are empty until there is a value).
FtIdle == [lines |-> 0, stderr |-> <<>>, swallowed |-> FALSE,
           validation |-> FALSE, model |-> <<>>, ran |-> <<>>,
           returned |-> <<>>]

\* execute_fine_tuning returns return_code without running the command.
Refuse(t, has_model, return_code) ==
    ft' = [ft EXCEPT ![t] = [FtIdle EXCEPT !.model = <<has_model>>,
                                           !.returned = <<return_code>>]]

Goto(t, p) == pc' = [pc EXCEPT ![t] = p]

\* An exception raised inside the try block: control goes to the handler.
Raise(t, e) ==
    /\ exc' = [exc EXCEPT ![t] = e]
    /\ Goto(t, "h_read")

\* A plausible slip: the write goes to the latest row of the configuration.
Store_latest_row(t, row) ==
    LET u == IF task_order = <<>> THEN t ELSE task_order[Len(task_order)] IN
    /\ tasks' = [tasks EXCEPT ![u] = row]
    /\ regressed' = [regressed EXCEPT ![u] = @ \/ row.progress < tasks[u].progress]
    /\ hist' = [hist EXCEPT ![u] =
                   IF @ # <<>> /\ @[Len(@)] = row.status THEN @
                   ELSE Append(@, row.status)]

\* A committed write of the row of task t.
Store(t, row) ==
    /\ tasks' = [tasks EXCEPT ![t] = row]
    /\ regressed' = [regressed EXCEPT ![t] = @ \/ row.progress < tasks[t].progress]
    /\ hist' = [hist EXCEPT ![t] =
                   IF @ # <<>> /\ @[Len(@)] = row.status THEN @
                   ELSE Append(@, row.status)]

\* A database call that raises.
Fault ==
    /\ faults < MaxFaults
    /\ faults' = faults + 1

\* db.update_task_status(...) inside the try block, then on to position next.
TryWrite(t, site, next, status, current_step, progress, metrics, result) ==
    IF ~RowExists(t)
    THEN /\ Raise(t, TaskNotFound(t))
         /\ UNCHANGED <<tasks, hist, regressed, faults>>
    ELSE \/ /\ Store(t, UpdatedRow(tasks[t], status, current_step, progress,
                                   None, metrics, result))
            /\ Goto(t, next)
            /\ UNCHANGED <<faults, exc>>
         \/ /\ Fault
            /\ Raise(t, DbError(site))
            /\ UNCHANGED <<tasks, hist, regressed>>

\* What db.get_finetune_config(config_id) finds: a complete row, no row, a
\* row without processed_file_full_path, a complete row whose percentages do
\* not add up.
Configs == {"ok", "missing", "no_output_dir", "invalid_split"}

\* The percentages stored in the row (the defaults of the columns, or values
\* with test + validation above 100)
Splits(c) ==
    IF c = "invalid_split"
    THEN [train_split |-> 70, validation_split |-> 60, test_split |-> 60]
    ELSE [train_split |-> 70, validation_split |-> 20, test_split |-> 10]

PipeInit ==
    /\ pc = [t \in TaskIds |-> "start"]
    /\ tasks = [t \in TaskIds |-> NoRow]
    /\ task_order = <<>>
    /\ config \in Configs
    /\ master = IF config = "missing" THEN "absent" ELSE "Pending"
    /\ faults = 0
    /\ exc = [t \in TaskIds |-> NoException]
    /\ propagated = [t \in TaskIds |-> NoException]
    /\ hist = [t \in TaskIds |-> <<>>]
    /\ regressed = [t \in TaskIds |-> FALSE]
    /\ h_current = [t \in TaskIds |-> [progress |-> 0, step |-> None]]
    /\ ft = [t \in TaskIds |-> FtIdle]

PipeIdle ==
    /\ pc = [t \in TaskIds |-> "idle"]
    /\ tasks = [t \in TaskIds |-> NoRow]
    /\ task_order = <<>>
    /\ config = "ok"
    /\ master = "Pending"
    /\ faults = 0
    /\ exc = [t \in TaskIds |-> NoException]
    /\ propagated = [t \in TaskIds |-> NoException]
    /\ hist = [t \in TaskIds |-> <<>>]
    /\ regressed = [t \in TaskIds |-> FALSE]
    /\ h_current = [t \in TaskIds |-> [progress |-> 0, step |-> None]]
    /\ ft = [t \in TaskIds |-> FtIdle]

\* db.create_task(task_id, config_id, status='PREPARING')
CreateTask(t) ==
    /\ pc[t] = "start"
    /\ IF RowExists(t)
       THEN /\ Raise(t, "IntegrityError: duplicate task_id")
            /\ UNCHANGED <<tasks, hist, regressed, task_order, faults>>
       ELSE \/ /\ Store(t, NewTaskRow("PREPARING"))
               /\ task_order' = Append(task_order, t)
               /\ Goto(t, "get_config")
               /\ UNCHANGED <<faults, exc>>
            \/ /\ Fault
               /\ Raise(t, DbError("create_task"))
               /\ UNCHANGED <<tasks, hist, regressed, task_order>>
    /\ UNCHANGED <<config, master, propagated, h_current, ft>>
    /\ UNCHANGED notPipeVars

\* db.get_finetune_config(config_id) and the two checks on its result
GetConfig(t) ==
    /\ pc[t] = "get_config"
    /\ \/ /\ config \in {"ok", "invalid_split"}
          /\ Goto(t, "set_in_progress")
          /\ UNCHANGED <<faults, exc>>
       \/ /\ config = "missing"
          /\ Raise(t, "No configuration found for ID")
          /\ UNCHANGED faults
       \/ /\ config = "no_output_dir"
          /\ Raise(t, "processed_file_full_path is not set in configuration")
          /\ UNCHANGED faults
       \/ /\ Fault
          /\ Raise(t, DbError("get_finetune_config"))
    /\ UNCHANGED <<tasks, hist, regressed, task_order, config, master, propagated, h_current, ft>>
    /\ UNCHANGED notPipeVars

\* db.update_finetune_status(config_id, "In Progress")
SetInProgress(t) ==
    /\ pc[t] = "set_in_progress"
    /\ \/ /\ IF master = "absent"
             THEN /\ Raise(t, "No configuration found with id")
                  /\ UNCHANGED master
             ELSE /\ master' = "In Progress"
                  /\ Goto(t, "w_dataset_creation")
                  /\ UNCHANGED exc
          /\ UNCHANGED faults
       \/ /\ Fault
          /\ Raise(t, DbError("update_finetune_status(In Progress)"))
          /\ UNCHANGED master
    /\ UNCHANGED <<tasks, hist, regressed, task_order, config, propagated, h_current, ft>>
    /\ UNCHANGED notPipeVars

WriteDatasetCreation(t) ==
    /\ pc[t] = "w_dataset_creation"
    /\ TryWrite(t, "update_task_status(DATASET_CREATION)", "get_rows",
                "DATASET_CREATION", "Creating the JSONL files for fine tuning",
                Pct(20), None, None)
    /\ UNCHANGED <<task_order, config, master, propagated, h_current, ft>>
    /\ UNCHANGED notPipeVars

\* db.get_all_dataset_jsonl(dataset_id)
GetRows(t) ==
    /\ pc[t] = "get_rows"
    /\ \/ /\ \E has_rows \in BOOLEAN :
                IF has_rows
                THEN Goto(t, "create_files") /\ UNCHANGED exc
                ELSE Raise(t, "No records found for dataset")
          /\ UNCHANGED faults
       \/ /\ Fault
          /\ Raise(t, DbError("get_all_dataset_jsonl"))
    /\ UNCHANGED <<tasks, hist, regressed, task_order, config, master, propagated, h_current, ft>>
    /\ UNCHANGED notPipeVars

\* os.makedirs(output_dir) and create_data_files(rows, test_split,
\* validation_split, output_dir): either may fail on the file system; the
\* percentages are sliced as they are stored, whatever their sum.
CreateDataFiles(t) ==
    /\ pc[t] = "create_files"
    /\ \E ok \in BOOLEAN :
          IF ok
          THEN Goto(t, "w_dataset_complete") /\ UNCHANGED exc
          ELSE Raise(t, "OSError: cannot write data files")
    /\ UNCHANGED <<tasks, hist, regressed, task_order, config, master, faults, propagated,
                   h_current, ft>>
    /\ UNCHANGED notPipeVars

WriteDatasetComplete(t) ==
    /\ pc[t] = "w_dataset_complete"
    /\ TryWrite(t, "update_task_status(DATASET_COMPLETE)", "w_hf_login",
                "DATASET_COMPLETE", "Dataset creation completed",
                Pct(40), "file_paths, dataset_stats", None)
    /\ UNCHANGED <<task_order, config, master, propagated, h_current, ft>>
    /\ UNCHANGED notPipeVars

WriteHfLogin(t) ==
    /\ pc[t] = "w_hf_login"
    /\ TryWrite(t, "update_task_status(HF_LOGIN)", "hf_login",
                "HF_LOGIN", "Logging in to Hugging Face", Pct(40), None, None)
    /\ UNCHANGED <<task_order, config, master, propagated, h_current, ft>>
    /\ UNCHANGED notPipeVars

\* os.getenv("HUGGINGFACE_API_TOKEN") and login_to_huggingface(token)
HfLogin(t) ==
    /\ pc[t] = "hf_login"
    /\ \E hf_token \in BOOLEAN, return_code \in {0, 1} :
          IF ~hf_token
          THEN Raise(t, "HUGGINGFACE_API_TOKEN environment variable is required")
          ELSE IF return_code # 0
          THEN Raise(t, "Huggingface login failed")
          ELSE Goto(t, "w_finetuning") /\ UNCHANGED exc
    /\ UNCHANGED <<tasks, hist, regressed, task_order, config, master, faults, propagated,
                   h_current, ft>>
    /\ UNCHANGED notPipeVars

WriteFinetuning(t) ==
    /\ pc[t] = "w_finetuning"
    /\ TryWrite(t, "update_task_status(FINETUNING)", "ft_resolve",
                "FINETUNING", "Starting fine-tuning", Pct(50), None, None)
    /\ UNCHANGED <<task_order, config, master, propagated, h_current, ft>>
    /\ UNCHANGED notPipeVars

\* The base models of the configurations that are run: one with an MLX
\* conversion and one without.
BaseModels == {"meta-llama/Llama-3.2-1B-Instruct", "google/gemma-2b"}

\* execute_fine_tuning up to the launch of the command: the working model is
\* resolved against the registry and its compatibility is tested ("raises" is
\* the except branch). `null_is_failure` is the test `if not model_to_use`.
Prepare(t, null_is_failure) ==
    /\ pc[t] = "ft_resolve"
    /\ \E original_model \in BaseModels,
          test_result \in {"true", "false", "raises"} :
       \E registry \in [{original_model, convert_to_mlx_model(original_model)}
                           -> {"200", "404"}] :
          LET model_to_use == get_working_model(registry, original_model) IN
          IF model_to_use = None /\ null_is_failure
          THEN /\ Raise(t, FineTuningFailed(1, <<"N","e","i","t","h","e","r"," ","t","h","e"," ","m","o","d","e","l"," ","n","o","r"," ","i","t","s"," ","M","L","X"," ","e","q","u","i","v","a","l","e","n","t"," ","c","o","u","l","d"," ","b","e"," ","a","c","c","e","s","s","e","d">>))
               /\ Refuse(t, FALSE, 1)
          ELSE IF test_result = "false"
          THEN /\ Raise(t, FineTuningFailed(1, <<"M","o","d","e","l"," ","i","s"," ","n","o","t"," ","c","o","m","p","a","t","i","b","l","e"," ","w","i","t","h"," ","c","u","r","r","e","n","t"," ","M","L","X"," ","v","e","r","s","i","o","n">>))
               /\ Refuse(t, model_to_use # None, 1)
          ELSE /\ Goto(t, "ft_run")
               /\ ft' = [ft EXCEPT ![t] = [FtIdle EXCEPT !.model = <<model_to_use # None>>]]
               /\ UNCHANGED exc
    /\ UNCHANGED <<tasks, hist, regressed, task_order, config, master, faults, propagated,
                   h_current>>
    /\ UNCHANGED notPipeVars

\* A plausible slip: the result of _get_working_model is not tested.
ResolveModel_unchecked(t) ==
    Prepare(t, FALSE)

\* execute_fine_tuning returns when _get_working_model returned null.
ResolveModel(t) ==
    Prepare(t, TRUE)

\* What _parse_and_report_progress makes of each line
LineEvents == [line \in OutputLines |-> ParseProgress(line.text)]

\* The lines that are validation markers
ValidationLines == { line \in OutputLines : IsValidationMarker(line.text) }

\* The runner reads one line of the fine-tuning process. A line read inside
\* the loop is handed to _parse_and_report_progress; a line found after the
\* exit of the process is only appended (POSIX branch). An exception of the
\* callback is caught in _parse_and_report_progress.
FtLine(t) ==
    /\ pc[t] = "ft_run"
    /\ ft[t].lines < MaxLines
    /\ \E line \in OutputLines, handed \in BOOLEAN :
          LET event == LineEvents[line]
              Read(caught) ==
                  ft' = [ft EXCEPT ![t] =
                            [lines |-> @.lines + 1,
                             stderr |-> IF line.stream = "stderr"
                                        THEN @.stderr \o line.text ELSE @.stderr,
                             swallowed |-> @.swallowed \/ caught,
                             validation |-> handed /\ line \in ValidationLines,
                             model |-> @.model,
                             ran |-> <<>>, returned |-> <<>>]]
          IN  IF handed /\ event # NoEvent
              THEN IF ~RowExists(t)
                   THEN Read(TRUE) /\ UNCHANGED <<tasks, hist, regressed, faults>>
                   ELSE \/ /\ Store(t, progress_callback(tasks[t], event.progress,
                                                         event.step))
                           /\ Read(FALSE)
                           /\ UNCHANGED faults
                        \/ /\ Fault
                           /\ Read(TRUE)
                           /\ UNCHANGED <<tasks, hist, regressed>>
              ELSE Read(FALSE) /\ UNCHANGED <<tasks, hist, regressed, faults>>
    /\ UNCHANGED <<pc, exc, task_order, config, master, propagated, h_current>>
    /\ UNCHANGED notPipeVars

\* The tail of execute_fine_tuning and the return-code test of the pipeline,
\* for a command that has run with the result (return_code, stderr) and a
\* verdict `failure` of the classifier: a failure is returned as it is; any
\* other result delivers progress_callback(completed, ...) and is returned
\* as 0.  The pipeline raises on a non-zero code.
Conclude(t, return_code, stderr, failure, completed) ==
    LET Return(code) ==
            ft' = [ft EXCEPT ![t].ran = <<[return_code |-> return_code,
                                           stderr |-> stderr]>>,
                             ![t].returned = code,
                             ![t].validation = FALSE]
    IN
    IF failure
    THEN /\ IF return_code # 0
            THEN Raise(t, FineTuningFailed(return_code, stderr))
            ELSE Goto(t, "w_creating_model") /\ UNCHANGED exc
         /\ Return(<<return_code>>)
         /\ UNCHANGED <<tasks, hist, regressed, faults>>
    ELSE IF ~RowExists(t)
    THEN /\ Raise(t, TaskNotFound(t))
         /\ Return(<<>>)
         /\ UNCHANGED <<tasks, hist, regressed, faults>>
    ELSE \/ /\ Store(t, progress_callback(tasks[t], completed,
                                          "Fine-tuning completed successfully"))
            /\ Goto(t, "w_creating_model")
            /\ Return(<<0>>)
            /\ UNCHANGED <<faults, exc>>
         \/ /\ Fault
            /\ Raise(t, DbError("progress_callback(100)"))
            /\ Return(<<>>)
            /\ UNCHANGED <<tasks, hist, regressed>>

\* A plausible slip: only positive codes are failures (`> 0` for `!= 0`).
FinishFineTuning_positive_codes_only(t, return_code, stderr) ==
    Conclude(t, return_code, stderr,
             return_code > 0 /\ is_mlx_error(stderr, return_code), Pct(100))

\* A plausible slip: the closing event repeats the ceiling of the parser.
FinishFineTuning_completes_at_95(t, return_code, stderr) ==
    Conclude(t, return_code, stderr, is_mlx_error(stderr, return_code), Pct(95))

\* The classifier judges the result the runner returned; the closing event
\* is progress_callback(100, "Fine-tuning completed successfully").
FinishFineTuning(t, return_code, stderr) ==
    Conclude(t, return_code, stderr, is_mlx_error(stderr, return_code), Pct(100))

\* The process exits by itself.
FtExit(t) ==
    /\ pc[t] = "ft_run"
    /\ \E return_code \in {0, 1} : FinishFineTuning(t, return_code, ft[t].stderr)
    /\ UNCHANGED <<task_order, config, master, propagated, h_current>>
    /\ UNCHANGED notPipeVars

\* The runner gives up after mlx_timeout seconds.
FtTimeout(t) ==
    /\ pc[t] = "ft_run"
    /\ FinishFineTuning(t, -1, TimeoutText(mlx_timeout))
    /\ UNCHANGED <<task_order, config, master, propagated, h_current>>
    /\ UNCHANGED notPipeVars

\* subprocess.Popen raises: run_command_with_progress_callback returns
\* (-1, "", "Command execution error: ...").
FtSpawnError(t) ==
    /\ pc[t] = "ft_run"
    /\ ft[t].lines = 0
    /\ FinishFineTuning(t, -1, <<"C","o","m","m","a","n","d"," ","e","x","e","c","u","t","i","o","n"," ","e","r","r","o","r",":"," ","[","E","r","r","n","o"," ","2","]"," ","N","o"," ","s","u","c","h"," ","f","i","l","e"," ","o","r"," ","d","i","r","e","c","t","o","r","y">>)
    /\ UNCHANGED <<task_order, config, master, propagated, h_current>>
    /\ UNCHANGED notPipeVars

WriteCreatingModel(t) ==
    /\ pc[t] = "w_creating_model"
    /\ TryWrite(t, "update_task_status(CREATING_MODEL)", "create_model",
                "CREATING_MODEL", "Creating Ollama-compatible model",
                Pct(90), None, None)
    /\ UNCHANGED <<task_order, config, master, propagated, h_current, ft>>
    /\ UNCHANGED notPipeVars

\* fine_tune_service.create_ollama_compatible_model(...)
CreateModel(t) ==
    /\ pc[t] = "create_model"
    /\ \E return_code \in {-1, 0, 1} :
          IF return_code # 0
          THEN Raise(t, "Ollama-compatible model creation failed")
          ELSE Goto(t, "w_completed") /\ UNCHANGED exc
    /\ UNCHANGED <<tasks, hist, regressed, task_order, config, master, faults, propagated,
                   h_current, ft>>
    /\ UNCHANGED notPipeVars

WriteCompleted(t) ==
    /\ pc[t] = "w_completed"
    /\ TryWrite(t, "update_task_status(COMPLETED)", "set_completed",
                "COMPLETED", "Fine-tuning completed", Pct(100), None,
                "model_path, model_name, stdout")
    /\ UNCHANGED <<task_order, config, master, propagated, h_current, ft>>
    /\ UNCHANGED notPipeVars

\* db.update_finetune_status(config_id, "Completed"), then the return
SetCompleted(t) ==
    /\ pc[t] = "set_completed"
    /\ \/ /\ master' = IF master = "absent" THEN master ELSE "Completed"
          /\ Goto(t, "returned")
          /\ UNCHANGED <<faults, exc>>
       \/ /\ Fault
          /\ Raise(t, DbError("update_finetune_status(Completed)"))
          /\ UNCHANGED master
    /\ UNCHANGED <<tasks, hist, regressed, task_order, config, propagated, h_current, ft>>
    /\ UNCHANGED notPipeVars

\* ---- except Exception as e ----

\* current_task = db.get_task_status(config_id), with the defaults of the
\* inner try/except
HandlerRead(t) ==
    /\ pc[t] = "h_read"
    /\ \/ /\ h_current' = [h_current EXCEPT ![t] =
                              IF LatestRow = NoRow
                              THEN [progress |-> 0, step |-> "Unknown step"]
                              ELSE [progress |-> LatestRow.progress,
                                    step |-> LatestRow.current_step]]
          /\ UNCHANGED faults
       \/ /\ Fault
          /\ h_current' = [h_current EXCEPT ![t] =
                              [progress |-> 0, step |-> "Unknown step"]]
    /\ Goto(t, "h_write")
    /\ UNCHANGED <<tasks, hist, regressed, task_order, config, master, exc, propagated, ft>>
    /\ UNCHANGED notPipeVars

\* db.update_task_status(task_id, status='FAILED', error=error_message, ...)
HandlerWrite(t) ==
    /\ pc[t] = "h_write"
    /\ IF ~RowExists(t)
       THEN /\ propagated' = [propagated EXCEPT ![t] = TaskNotFound(t)]
            /\ Goto(t, "raised")
            /\ UNCHANGED <<tasks, hist, regressed, faults>>
       ELSE \/ /\ Store(t, UpdatedRow(tasks[t], "FAILED",
                                      "Failed: " \o h_current[t].step,
                                      h_current[t].progress,
                                      FailureMessage(h_current[t].step, exc[t]),
                                      None, None))
               /\ Goto(t, "h_master")
               /\ UNCHANGED <<faults, propagated>>
            \/ /\ Fault
               /\ propagated' = [propagated EXCEPT ![t] =
                                    DbError("update_task_status(FAILED)")]
               /\ Goto(t, "raised")
               /\ UNCHANGED <<tasks, hist, regressed>>
    /\ UNCHANGED <<task_order, config, master, exc, h_current, ft>>
    /\ UNCHANGED notPipeVars

\* db.update_finetune_status(config_id, "Failed"), then raise e
HandlerMaster(t) ==
    /\ pc[t] = "h_master"
    /\ \/ /\ master' = IF master = "absent" THEN master ELSE "Failed"
          /\ propagated' = [propagated EXCEPT ![t] = exc[t]]
          /\ UNCHANGED faults
       \/ /\ Fault
          /\ propagated' = [propagated EXCEPT ![t] =
                               DbError("update_finetune_status(Failed)")]
          /\ UNCHANGED master
    /\ Goto(t, "raised")
    /\ UNCHANGED <<tasks, hist, regressed, task_order, config, exc, h_current, ft>>
    /\ UNCHANGED notPipeVars

Run(t) ==
    \/ CreateTask(t)
    \/ GetConfig(t)
    \/ SetInProgress(t)
    \/ WriteDatasetCreation(t)
    \/ GetRows(t)
    \/ CreateDataFiles(t)
    \/ WriteDatasetComplete(t)
    \/ WriteHfLogin(t)
    \/ HfLogin(t)
    \/ WriteFinetuning(t)
    \/ ResolveModel(t)
    \/ FtLine(t)
    \/ FtExit(t)
    \/ FtTimeout(t)
    \/ FtSpawnError(t)
    \/ WriteCreatingModel(t)
    \/ CreateModel(t)
    \/ WriteCompleted(t)
    \/ SetCompleted(t)
    \/ HandlerRead(t)
    \/ HandlerWrite(t)
    \/ HandlerMaster(t)

\* One run of the pipeline.
TheRun == "task-1"

Next == Run(TheRun)

(***************************************************************************)
(* Specifications                                                          *)
(***************************************************************************)

FnIdle == BatchIdle /\ SplitIdle /\ ResolveIdle /\ PackageIdle /\ ExtractIdle

Init == PipeInit /\ ClsIdle /\ RunIdle /\ FnIdle

\* One run of the pipeline over the task-status store.
Spec == Init /\ [][Next]_vars

ClsNext == Classify

ClassifierInit == ClsInit /\ RunIdle /\ PipeIdle /\ FnIdle

\* The outcome classifier applied to bounded stderr texts and exit codes.
SpecClassifier == ClassifierInit /\ [][ClsNext]_vars

RunnerInit == RunInit /\ ClsIdle /\ PipeIdle /\ FnIdle

\* The process runner against a child process and two bounded pipes.
SpecRunner == RunnerInit /\ [][RunNext]_vars

BatchSpecInit ==
    BatchInit /\ SplitIdle /\ ResolveIdle /\ PackageIdle /\ ExtractIdle /\ ClsIdle /\ RunIdle /\ PipeIdle

\* The batch size clamp applied to bounded split sizes and requests.
SpecBatch == BatchSpecInit /\ [][BatchNext]_vars

SplitSpecInit ==
    SplitInit /\ BatchIdle /\ ResolveIdle /\ PackageIdle /\ ExtractIdle /\ ClsIdle /\ RunIdle /\ PipeIdle

\* The dataset split applied to bounded record counts and percentages.
SpecSplit == SplitSpecInit /\ [][SplitNext]_vars

\* Lines that each fine-tuning process prints when runs are interleaved.
ConcurrentLines == 1

\* Several runs of one configuration, interleaved step by step: every run
\* takes the steps of Run; the processes print at most ConcurrentLines lines,
\* none of them on stderr, and no database call raises.
ConcurrentNext ==
    \E t \in TaskIds :
        /\ Run(t)
        /\ ft'[t].lines <= ConcurrentLines
        /\ ft'[t].stderr = <<>>
        /\ faults' = 0

ConcurrentInit ==
    /\ PipeInit
    /\ config = "ok"
    /\ ClsIdle /\ RunIdle /\ FnIdle

SpecConcurrent == ConcurrentInit /\ [][ConcurrentNext]_vars

ResolveSpecInit ==
    ResolveInit /\ BatchIdle /\ SplitIdle /\ PackageIdle /\ ExtractIdle /\ ClsIdle /\ RunIdle /\ PipeIdle

\* Model resolution applied to requested identifiers and registries.
SpecResolve == ResolveSpecInit /\ [][ResolveNext]_vars

PackageSpecInit ==
    /\ PackageInit
    /\ BatchIdle /\ SplitIdle /\ ResolveIdle /\ ExtractIdle /\ ClsIdle /\ RunIdle /\ PipeIdle

\* Model packaging over model types, adapter files and command results.
SpecPackage == PackageSpecInit /\ [][PackageNext]_vars

ExtractSpecInit ==
    /\ ExtractInit
    /\ BatchIdle /\ SplitIdle /\ ResolveIdle /\ PackageIdle
    /\ ClsIdle /\ RunIdle /\ PipeIdle

\* The progress extractor applied to lines made of known markers.
SpecExtract == ExtractSpecInit /\ [][ExtractNext]_vars

(***************************************************************************)
(* Claims about the pipeline (checked under Spec)                          *)
(***************************************************************************)

\* The run returned its result dictionary (no exception left the function).
EndedSuccessfully(t) == pc[t] = "returned"

\* The run left the function with an exception.
EndedRaising(t) == pc[t] = "raised"

\* C1 (as claimed): a successful run persists exactly PREPARING,
\* DATASET_CREATION, DATASET_COMPLETE, HF_LOGIN, FINETUNING, CREATING_MODEL,
\* OLLAMA_IMPORT, COMPLETED, and ends with progress 100.
C1_EightStagesInOrder ==
    \A t \in TaskIds :
        EndedSuccessfully(t) =>
            /\ hist[t] = <<"PREPARING", "DATASET_CREATION", "DATASET_COMPLETE",
                           "HF_LOGIN", "FINETUNING", "CREATING_MODEL",
                           "OLLAMA_IMPORT", "COMPLETED">>
            /\ tasks[t].progress = Pct(100)

\* C1 (amended): a successful run persists exactly PREPARING,
\* DATASET_CREATION, DATASET_COMPLETE, HF_LOGIN, FINETUNING, CREATING_MODEL,
\* COMPLETED, in that order with none skipped; OLLAMA_IMPORT is never
\* persisted; the final persisted progress is 100.
C1_SevenStagesInOrder ==
    \A t \in TaskIds :
        /\ EndedSuccessfully(t) =>
              /\ hist[t] = <<"PREPARING", "DATASET_CREATION", "DATASET_COMPLETE",
                             "HF_LOGIN", "FINETUNING", "CREATING_MODEL",
                             "COMPLETED">>
              /\ tasks[t].progress = Pct(100)
        /\ \A i \in DOMAIN hist[t] : hist[t][i] # "OLLAMA_IMPORT"

\* C1 witness: a run ended successfully after the callback had persisted
\* progress for lines of the fine-tuning process.
C1_Witness ==
    /\ EndedSuccessfully(TheRun)
    /\ tasks[TheRun].status = "COMPLETED"
    /\ ft[TheRun].lines = MaxLines

\* C2 (as claimed): when a run ends with an exception, the task's persisted
\* status is FAILED, the master status of the (existing) configuration is
\* "Failed", and the exception that leaves is the one that was raised.
C2_FailedAndOriginalReraised ==
    \A t \in TaskIds :
        EndedRaising(t) =>
            /\ tasks[t].status = "FAILED"
            /\ master # "absent" => master = "Failed"
            /\ propagated[t] = exc[t]

\* C3 (as claimed): once the persisted status of a task is COMPLETED or FAILED
\* no later step changes it.
C3_TerminalStatusIsFinal ==
    [][\A t \in TaskIds :
           tasks[t].status \in {"COMPLETED", "FAILED"}
               => tasks'[t].status = tasks[t].status]_vars

\* C4: every task row whose status is FAILED has a non-null error.
C4_FailedCarriesError ==
    \A t \in TaskIds : tasks[t].status = "FAILED" => tasks[t].error # None

\* C4 witness: the failure handler has written FAILED for a task whose
\* fine-tuning process failed.
C4_Witness ==
    /\ tasks[TheRun].status = "FAILED"
    /\ hist[TheRun][Len(hist[TheRun]) - 1] = "FINETUNING"
    /\ tasks[TheRun].error # None


\* The exception of a run whose resolved model failed the compatibility test:
\* execute_fine_tuning returned (1, "", error_msg) without launching the
\* command.
RefusedAsIncompatible ==
    FineTuningFailed(1, <<"M","o","d","e","l"," ","i","s"," ","n","o","t"," ","c","o","m","p","a","t","i","b","l","e"," ","w","i","t","h"," ","c","u","r","r","e","n","t"," ","M","L","X"," ","v","e","r","s","i","o","n">>)

\* C14 (as claimed): the compatibility test is advisory; no run fails because
\* the test of its resolved model returned false.
C14_CompatibilityIsAdvisory ==
    \A t \in TaskIds :
        ~(/\ exc[t] = RefusedAsIncompatible
          /\ tasks[t].status = "FAILED"
          /\ ft[t].lines = 0)

\* The run raised because HUGGINGFACE_API_TOKEN is not set.
TokenMissing(t) ==
    exc[t] = "HUGGINGFACE_API_TOKEN environment variable is required"

\* C16 (as claimed): a run without the registry credential never persists
\* FINETUNING and ends with status FAILED, a current_step that contains
\* "HF_LOGIN", and the progress persisted before the HF_LOGIN stage.
C16_MissingTokenEndsAtLogin ==
    \A t \in TaskIds :
        TokenMissing(t) =>
            /\ \A k \in DOMAIN hist[t] : hist[t][k] # "FINETUNING"
            /\ EndedRaising(t) =>
                  /\ tasks[t].status = "FAILED"
                  /\ Contains("HF_LOGIN", tasks[t].current_step)
                  /\ tasks[t].progress = Pct(40)

\* The run raised because its configuration did not resolve, or because its
\* dataset has no rows.
NothingToTrain(t) ==
    exc[t] \in {"No configuration found for ID",
                "processed_file_full_path is not set in configuration",
                "No records found for dataset"}

\* C17 (as claimed): a run whose configuration does not resolve or whose
\* dataset is empty never persists DATASET_CREATION or a later stage, and ends
\* FAILED.
C17_FailsBeforeDatasetCreation ==
    \A t \in TaskIds :
        NothingToTrain(t) =>
            /\ \A k \in DOMAIN hist[t] : hist[t][k] \in {"PREPARING", "FAILED"}
            /\ (EndedRaising(t) /\ faults = 0) => tasks[t].status = "FAILED"

\* The stored percentages are invalid: test + validation exceed 100, or the
\* three do not add up to 100.
InvalidSplits ==
    LET s == Splits(config) IN
    \/ s.test_split + s.validation_split > 100
    \/ s.train_split + s.validation_split + s.test_split # 100

\* C18 (as claimed): with invalid split percentages the run fails before the
\* registry login: FINETUNING, which is written after the login command
\* returned, is never persisted, and the run does not end successfully.
C18_InvalidSplitsFailFast ==
    (config # "missing" /\ InvalidSplits) =>
        \A t \in TaskIds :
            /\ pc[t] # "w_finetuning"
            /\ \A k \in DOMAIN hist[t] : hist[t][k] # "FINETUNING"
            /\ ~EndedSuccessfully(t)

\* The stages whose status write is made inside the try block.
WrittenStages ==
    {"DATASET_CREATION", "DATASET_COMPLETE", "HF_LOGIN", "FINETUNING",
     "CREATING_MODEL", "COMPLETED"}

\* A status write of the run raised: a write of a stage, or a write made by
\* the progress callback while the fine-tuning process was read.
StatusWriteRaised(t) ==
    \/ ft[t].swallowed
    \/ \E s \in WrittenStages : exc[t] = DbError("update_task_status(" \o s \o ")")

\* C19 (as claimed): a run one of whose status writes raised does not go on
\* to COMPLETED and does not end successfully.
C19_FailedWriteStopsRun ==
    \A t \in TaskIds :
        StatusWriteRaised(t) =>
            /\ tasks[t].status # "COMPLETED"
            /\ ~EndedSuccessfully(t)

\* The runner gave up on the fine-tuning process of the run: its result is
\* -1 with the timeout message.
RunTimedOut(t) ==
    ft[t].ran = <<[return_code |-> -1, stderr |-> TimeoutText(mlx_timeout)]>>

\* The failure handler of the run has written its row and re-raises the
\* exception of the run.
HandlerCommitted(t) == EndedRaising(t) /\ propagated[t] = exc[t]

\* C27: a fine-tuning process that exceeds its timeout fails the run whatever
\* it printed: execute_fine_tuning returns -1 (never 0), the pipeline raises
\* with the timeout message, CREATING_MODEL is never
\* persisted, the run does not end successfully, and the task is FAILED once
\* the failure handler has written the row.
C27_TimeoutAlwaysFails ==
    \A t \in TaskIds :
        RunTimedOut(t) =>
            /\ ft[t].returned = <<-1>>
            /\ exc[t] = FineTuningFailed(-1, TimeoutText(mlx_timeout))
            /\ \A k \in DOMAIN hist[t] :
                   hist[t][k] \notin {"CREATING_MODEL", "COMPLETED"}
            /\ ~EndedSuccessfully(t)
            /\ HandlerCommitted(t) => tasks[t].status = "FAILED"

\* C27 witness: the process printed a download marker at 100% and a completion
\* phrase, the runner timed out, and the run ended with the task FAILED.
C27_Witness ==
    /\ RunTimedOut(TheRun)
    /\ Contains(<<"F","e","t","c","h","i","n","g"," ","3"," ","f","i","l","e","s",":"," ","1","0","0","%","|">>, ft[TheRun].stderr)
    /\ ft[TheRun].lines = MaxLines
    /\ tasks[TheRun].progress = Pct(100)
    /\ HandlerCommitted(TheRun)
    /\ tasks[TheRun].status = "FAILED"

\* The command of the run has run and execute_fine_tuning has returned.
CommandReturned(t) == ft[t].ran # <<>> /\ ft[t].returned # <<>>

\* The verdict of the classifier on the result the runner returned.
JudgedFailure(t) == is_mlx_error(ft[t].ran[1].stderr, ft[t].ran[1].return_code)

\* The code returned follows the verdict, and a result that is not a failure
\* leaves the closing event in the row.
ReturnFollowsVerdict ==
    \A t \in TaskIds :
        CommandReturned(t) =>
            /\ ft[t].returned = <<0>> <=> ~JudgedFailure(t)
            /\ JudgedFailure(t) =>
                  /\ ft[t].returned = <<ft[t].ran[1].return_code>>
                  /\ ft[t].ran[1].return_code # 0
            /\ (~JudgedFailure(t) /\ pc[t] = "w_creating_model") =>
                  /\ tasks[t].progress = Pct(100)
                  /\ tasks[t].current_step = "Fine-tuning completed successfully"

\* The step in which execute_fine_tuning returns: a failure delivers no event,
\* any other result delivers the closing event as the last write of the row.
ClosingEvent ==
    \A t \in TaskIds :
        (~CommandReturned(t) /\ CommandReturned(t)') =>
            IF JudgedFailure(t)'
            THEN tasks' = tasks
            ELSE tasks'[t] = progress_callback(tasks[t], Pct(100),
                                               "Fine-tuning completed successfully")

\* C28: once the command has run, execute_fine_tuning returns 0 exactly when
\* the classifier judges the result not a failure, and then the last progress
\* event is 100 with "Fine-tuning completed successfully"; on a failure it
\* returns the original non-zero code and delivers no event.  (The classifier
\* dismisses no non-zero code, see C5, so every result returned as 0 had the
\* code 0.)
C28_ReturnFollowsClassifier == []ReturnFollowsVerdict /\ [][ClosingEvent]_vars

\* C28 witness: the command printed lines that left the progress below 100,
\* exited with 0, and execute_fine_tuning returned 0 with the closing event
\* in the row.
C28_Witness ==
    /\ CommandReturned(TheRun)
    /\ ft[TheRun].ran[1].return_code = 0
    /\ ft[TheRun].returned = <<0>>
    /\ ft[TheRun].lines = MaxLines
    /\ Contains(<<"F","e","t","c","h","i","n","g"," ","3"," ","f","i","l","e","s",":"," ","0","%","|">>, ft[TheRun].stderr)
    /\ pc[TheRun] = "w_creating_model"
    /\ tasks[TheRun].progress = Pct(100)

\* _get_working_model returned null for the run: neither the requested
\* identifier nor its fallback validated.
NoWorkingModel(t) == ft[t].model = <<FALSE>>

\* C29: when model resolution returns null no fine-tuning process is spawned
\* (no line is read and the runner returns no result), execute_fine_tuning
\* returns the code 1 with its error message, CREATING_MODEL is never
\* persisted, the run does not end successfully, and the task is FAILED once
\* the failure handler has written the row.
C29_NoModelNoLaunch ==
    \A t \in TaskIds :
        NoWorkingModel(t) =>
            /\ ft[t].lines = 0 /\ ft[t].ran = <<>>
            /\ pc[t] # "ft_run"
            /\ ft[t].returned = <<1>>
            /\ exc[t] = FineTuningFailed(1, <<"N","e","i","t","h","e","r"," ","t","h","e"," ","m","o","d","e","l"," ","n","o","r"," ","i","t","s"," ","M","L","X"," ","e","q","u","i","v","a","l","e","n","t"," ","c","o","u","l","d"," ","b","e"," ","a","c","c","e","s","s","e","d">>)
            /\ \A k \in DOMAIN hist[t] :
                   hist[t][k] \notin {"CREATING_MODEL", "COMPLETED"}
            /\ ~EndedSuccessfully(t)
            /\ HandlerCommitted(t) => tasks[t].status = "FAILED"

\* C29 witness: a run whose resolution returned null has ended with the task
\* FAILED at the progress of the FINETUNING write.
C29_Witness ==
    /\ NoWorkingModel(TheRun)
    /\ HandlerCommitted(TheRun)
    /\ tasks[TheRun].status = "FAILED"
    /\ tasks[TheRun].progress = Pct(50)
    /\ hist[TheRun][Len(hist[TheRun]) - 1] = "FINETUNING"

\* The step of run t reads a validation marker and hands it to
\* _parse_and_report_progress.
ReadsValidationMarker(t) ==
    /\ ft'[t].lines = ft[t].lines + 1
    /\ ft'[t].validation

\* C30: a validation marker line changes only the step description of the
\* task, to "Running validation...": progress, error, metrics and result of
\* the row stay as they were, the status stays FINETUNING, and no other row
\* changes.  (When the write of the callback raises, the row is left as it
\* was.)
C30_ValidationChangesOnlyStep ==
    [][\A t \in TaskIds :
          ReadsValidationMarker(t) =>
              /\ tasks[t].status = "FINETUNING"
              /\ tasks' = [tasks EXCEPT ![t].current_step =
                              IF faults' = faults THEN "Running validation..."
                              ELSE @]]_vars

\* C30 witness: a validation marker was read after an iteration marker; the
\* row holds the step of the validation rule and the progress of the
\* iteration.
C30_Witness ==
    /\ ft[TheRun].validation
    /\ pc[TheRun] = "ft_run"
    /\ tasks[TheRun].current_step = "Running validation..."
    /\ tasks[TheRun].progress = Pct(75)
    /\ tasks[TheRun].status = "FINETUNING"

(***************************************************************************)
(* Claims about several runs of one configuration (SpecConcurrent)         *)
(***************************************************************************)

\* Every run has been started and has left the function.
AllFinished ==
    /\ Len(task_order) = Cardinality(TaskIds)
    /\ \A t \in TaskIds : EndedSuccessfully(t) \/ EndedRaising(t)

\* The run whose task row was created last
LatestRun == task_order[Len(task_order)]

\* C20 (as claimed): when all runs of the configuration have finished, the
\* master status is that of the most recently started run: "Completed" if it
\* ended COMPLETED, "Failed" if it ended FAILED.
C20_MasterFollowsLatestRun ==
    AllFinished =>
        /\ tasks[LatestRun].status = "COMPLETED" => master = "Completed"
        /\ tasks[LatestRun].status = "FAILED" => master = "Failed"

(***************************************************************************)
(* Claims about the persisted progress (Spec)                              *)
(***************************************************************************)

\* C21 (as claimed): in a run that ends COMPLETED no write has stored a
\* smaller progress than the row held before it.
C21_ProgressNeverDecreases ==
    \A t \in TaskIds :
        (EndedSuccessfully(t) /\ tasks[t].status = "COMPLETED") => ~regressed[t]

\* C22 (as claimed): the persisted progress of every task row is within
\* [0, 100], whatever the fine-tuning process prints.
C22_ProgressWithinRange ==
    \A t \in TaskIds :
        RowExists(t) => (0 <= tasks[t].progress /\ tasks[t].progress <= Pct(100))

\* The task ids of the rows, in the order of their creation, are distinct;
\* they are the ids that have a row; a run whose create_task returned has one.
OneRowPerTask ==
    /\ \A i, j \in DOMAIN task_order : task_order[i] = task_order[j] => i = j
    /\ \A t \in TaskIds : RowExists(t) <=> \E i \in DOMAIN task_order : task_order[i] = t
    /\ \A t \in TaskIds :
          (pc[t] \notin {"idle", "start"} /\ exc[t] # DbError("create_task"))
              => RowExists(t)

\* The step is taken by run t.
StepOf(t) == pc'[t] # pc[t] \/ ft'[t] # ft[t]

\* A step creates a row only as the first step of the run of that task id,
\* deletes none, and changes only the row of the run that takes it.
OwnRowOnly ==
    \A t \in TaskIds :
        /\ RowExists(t) => tasks'[t] # NoRow
        /\ (~RowExists(t) /\ tasks'[t] # NoRow) =>
              /\ pc[t] = "start"
              /\ tasks'[t] = NewTaskRow("PREPARING")
              /\ task_order' = Append(task_order, t)
        /\ RowExists(t) => task_order' = task_order \/ ~StepOf(t)
        /\ tasks'[t] # tasks[t] => StepOf(t)

\* C25: each run creates one task row, for its own task id, at its start; no
\* update and no handler creates or deletes a row; a run writes only the row
\* of its own task id, under every interleaving of the runs.
C25_RunsWriteOwnRow == []OneRowPerTask /\ [][OwnRowOnly]_vars

\* C25 witness: two interleaved runs have both finished, one COMPLETED and
\* one FAILED, each in its own row.
C25_Witness ==
    /\ AllFinished
    /\ tasks["task-1"].status = "FAILED"
    /\ tasks["task-2"].status = "COMPLETED"
    /\ hist["task-1"][1] = "PREPARING"
    /\ hist["task-2"][1] = "PREPARING"

\* C26 (as claimed): the FAILED record of a task carries the progress and
\* the step description last persisted for that task itself, also when
\* another run of the same configuration is executing.
C26_FailedKeepsOwnProgress ==
    [][\A t \in TaskIds :
          (pc[t] = "h_write" /\ tasks'[t].status = "FAILED") =>
              /\ tasks'[t].progress = tasks[t].progress
              /\ tasks'[t].current_step = "Failed: " \o tasks[t].current_step]_vars

(***************************************************************************)
(* Claims about the outcome classifier (checked under SpecClassifier)      *)
(***************************************************************************)

ReachedFull(stderr) ==
    Contains(<<"F","e","t","c","h","i","n","g">>, stderr) /\ Contains(<<"1","0","0","%">>, stderr)

\* C5 (as claimed): for a non-zero exit code, stderr with a download marker
\* that reached 100% and without any strong error marker is "not a failure".
C5_FullDownloadNotFailure ==
    (/\ cls_result # "pending"
     /\ cls_rc # 0
     /\ ReachedFull(cls_stderr)
     /\ ~HasErrorIndicator(cls_stderr))
    => cls_result = "no_failure"

\* C6: exit code 0 is never a failure, whatever stderr holds.
C6_ZeroExitNeverFailure ==
    (cls_result # "pending" /\ cls_rc = 0) => cls_result = "no_failure"

\* C6 witness: exit code 0 was classified for a stderr that has both a strong
\* error marker and a download marker at 0%.
C6_Witness ==
    /\ cls_result = "no_failure"
    /\ cls_rc = 0
    /\ HasErrorIndicator(cls_stderr)
    /\ Contains(<<"F","e","t","c","h","i","n","g"," ","3"," ","f","i","l","e","s",":"," ","0","%">>, cls_stderr)

\* C7: with a non-zero exit code, a strong error marker means failure, also
\* beside a download marker at 100%.
C7_ErrorMarkerIsFailure ==
    (/\ cls_result # "pending"
     /\ cls_rc # 0
     /\ HasErrorIndicator(cls_stderr))
    => cls_result = "failure"

\* C7 witness: exit code 1, "Error:" together with "Fetching 3 files: 100%".
C7_Witness ==
    /\ cls_result = "failure"
    /\ cls_rc = 1
    /\ Contains(<<"E","r","r","o","r",":">>, cls_stderr)
    /\ Contains(<<"F","e","t","c","h","i","n","g"," ","3"," ","f","i","l","e","s",":"," ","1","0","0","%">>, cls_stderr)

(***************************************************************************)
(* Claims about the process runner (checked under SpecRunner)              *)
(***************************************************************************)

\* The runner went through its timeout branch.
TookTimeoutBranch == run_kill_log # <<>>

\* Every SIGKILL request comes after a SIGTERM request made at least the
\* grace period earlier, and is made only for a child seen still running.
KillOnlyAfterGrace ==
    \A i \in DOMAIN run_kill_log :
        run_kill_log[i].sig = "SIGKILL" =>
            /\ run_kill_log[i].alive
            /\ \E j \in 1..(i - 1) :
                 /\ run_kill_log[j].sig = "SIGTERM"
                 /\ run_kill_log[i].at >= run_kill_log[j].at + GracePeriod

\* The timeout branch is taken only past the budget, and what it returns is
\* exit code -1, the stdout read so far and the message naming timeout_seconds.
TimeoutOutcome ==
    /\ run_kill_log[1].at > run_timeout
    /\ run_pc = "done" =>
         /\ run_result.rc = -1
         /\ run_result.stdout = run_out["stdout"]
         /\ run_result.stderr =
              <<"Command timed out after " \o ToString(run_timeout) \o " seconds">>

C9_EveryLineParsed ==
    (run_pc = "done" /\ run_cb /\ ~TookTimeoutBranch /\ child_state = "exited") =>
        \A s \in Streams :
            /\ NonBlank(run_out[s]) = NonBlank(written[s])
            /\ NonBlank(run_parsed[s]) = NonBlank(written[s])

\* The child is blocked writing to the full pipe of stream s.
ChildBlocked(s) ==
    /\ child_state = "running"
    /\ child_script # <<>>
    /\ Head(child_script).stream = s
    /\ Len(pipe[s]) >= PipeCap

\* The runner is inside a readline() on stream s that cannot return.
RunnerBlockedReading(s) ==
    /\ ~Readable(s)
    /\ \/ run_pc = "lg_" \o s
       \/ run_pc = "sel_" \o s /\ s \in run_ready

\* The runner is in a loop that reads no pipe before the child has exited.
RunnerOnlyPolls == run_pc \in {"pl_top", "pl_poll"}

\* C10 (as claimed): the child is never blocked on a full pipe while the
\* runner waits on the other stream or only polls for the exit.
C10_NoBlockedWriter ==
    \A s \in Streams :
        ~(ChildBlocked(s) /\ (RunnerBlockedReading(Other(s)) \/ RunnerOnlyPolls))

(***************************************************************************)
(* Claims about the batch size clamp (checked under SpecBatch)             *)
(***************************************************************************)

SmallestSplit == Min(batch.train_size, Min(batch.valid_size, batch.test_size))

IsFloorShare(n, total, percent) ==
    /\ n * 100 <= total * percent
    /\ total * percent < (n + 1) * 100

\* Every record is in exactly one of the three lists.
IsPartition(files, total) ==
    LET all == files.test_data \o files.valid_data \o files.train_data
    IN  /\ Len(all) = total
        /\ \A r \in 1..total : \E i \in 1..Len(all) : all[i] = r

\* C12: with train = 100 - test - valid >= 0 the three splits partition the
\* records, test has floor(total*test/100) records, valid has
\* floor(total*valid/100), train has the rest (so the rounding remainder), and
\* 10 records at 70/20/10 give 7/2/1.
C12_SplitsPartitionRecords ==
    (split.done /\ split.test_percent + split.valid_percent <= 100) =>
        /\ IsPartition(split.files, split.total)
        /\ IsFloorShare(Len(split.files.test_data), split.total, split.test_percent)
        /\ IsFloorShare(Len(split.files.valid_data), split.total, split.valid_percent)
        /\ Len(split.files.train_data) =
              split.total - Len(split.files.test_data) - Len(split.files.valid_data)
        /\ (split.total = 10 /\ split.test_percent = 10 /\ split.valid_percent = 20) =>
              /\ Len(split.files.train_data) = 7
              /\ Len(split.files.valid_data) = 2
              /\ Len(split.files.test_data) = 1

\* C12 witness: 10 shuffled records were split at 70/20/10.
C12_Witness ==
    /\ split.done
    /\ split.total = 10
    /\ split.test_percent = 10
    /\ split.valid_percent = 20
    /\ Len(split.files.train_data) = 7
    /\ split.files.test_data # <<1>>

(***************************************************************************)
(* Claims about model resolution (checked under SpecResolve)               *)
(***************************************************************************)

\* The existence probe of the identifier passes (status 200, or it raises).
Validates(model_name) == resolve.registry[model_name] \in {"200", "raises"}

Fallback == convert_to_mlx_model(resolve.original_model)

\* C13: the result is the requested identifier, its fallback or null; the
\* requested one exactly when it validates; otherwise the fallback exactly
\* when the fallback validates; otherwise null; a returned identifier has
\* passed the probe.
C13_ResolutionOrder ==
    resolve.done =>
        /\ resolve.result \in {resolve.original_model, Fallback, None}
        /\ resolve.result = resolve.original_model <=> Validates(resolve.original_model)
        /\ ~Validates(resolve.original_model) =>
              /\ resolve.result = Fallback <=> Validates(Fallback)
              /\ ~Validates(Fallback) => resolve.result = None
        /\ resolve.result # None => Validates(resolve.result)

\* C13 witness: the requested identifier was not found, the probe of its
\* prefix-rule fallback raised, and the fallback was returned.
C13_Witness ==
    /\ resolve.done
    /\ resolve.original_model = "mistralai/forks/mistralai/Mistral-7B"
    /\ resolve.registry[resolve.original_model] = "404"
    /\ resolve.registry[Fallback] = "raises"
    /\ resolve.result = "mlx-community/forks/Mistral-7B"

(***************************************************************************)
(* Claims about model packaging (checked under SpecPackage)                *)
(***************************************************************************)

\* The adapter could not be used directly: its file is missing, or the
\* adapter-based creation returned non-zero, or the created model failed its
\* test call (and was removed).
AdapterUnusable ==
    \/ ~package.adapter_file
    \/ /\ package.commands # <<>>
       /\ package.commands[1].return_code # 0
    \/ /\ Len(package.commands) >= 2
       /\ package.commands[2].argv = "rm"

\* C15 (as claimed): whenever the adapter cannot be used directly and the
\* working directory can be written, the enhanced-system-prompt model is
\* attempted and its result is the result of the stage.
C15_AlwaysFallsBack ==
    (/\ package.pc = "returned"
     /\ AdapterUnusable
     /\ package.result.stderr # "Error creating Ollama-compatible model: OSError")
        => /\ package.enhanced # NoResult
           /\ package.result = package.enhanced
(***************************************************************************)
(* Claims about the progress extractor (checked under SpecExtract)         *)
(***************************************************************************)

\* The line holds one iteration marker and nothing else.
IsIterLine == extract.shape \in {<<"iter">>, <<"iter_padded">>}

\* The progress reported for the line "Iter <k>: ..."
IterProgress(k) == ParseProgress(LineOf(<<"iter">>, k)).progress

\* C23: for "Iter <k>:" the reported percentage is min(95, 60 + (k/100)*30);
\* it is 75 for k = 50, never above 95, and not below that of k - 1.
C23_IterationRule ==
    (extract.done /\ IsIterLine) =>
        /\ extract.event.kind = "iteration"
        /\ extract.event.progress * 100 = Min(Pct(95) * 100, Pct(60) * 100 + extract.k * Pct(30))
        /\ extract.event.progress <= Pct(95)
        /\ extract.k = 50 => extract.event.progress = Pct(75)
        /\ extract.k > 0 => IterProgress(extract.k - 1) <= extract.event.progress
        /\ extract.event.step = "Training iteration " \o ToString(extract.k) \o "/100"

\* C23 witness: the line "Iter 050: ..." was parsed and reported 75.
C23_Witness ==
    /\ extract.done
    /\ extract.shape = <<"iter_padded">>
    /\ extract.k = 50
    /\ extract.event.progress = Pct(75)

\* The rules, in the order in which the extractor tries them
RuleOrder == <<"download", "iteration", "validation", "save", "completion">>

\* The rules whose pattern occurs in the text of a marker
RulesOf(m) ==
    CASE m = "download"       -> {"download"}
      [] m = "iter"           -> {"iteration"}
      [] m = "iter_padded"    -> {"iteration"}
      [] m = "val_loss"       -> {"validation"}
      [] m = "validation"     -> {"validation"}
      [] m = "saving"         -> {"save"}
      [] m = "adapters_saved" -> {"save", "completion"}
      [] m = "complete"       -> {"completion"}
      [] m = "lower_done"     -> {"completion"}
      [] m = "other"          -> {}

\* The rules that match a line of the given shape
Matching(shape) == UNION { RulesOf(shape[i]) : i \in DOMAIN shape }

\* The first rule of RuleOrder that matches, "none" when no rule does
FirstRule(shape) ==
    IF Matching(shape) = {} THEN "none"
    ELSE RuleOrder[CHOOSE i \in DOMAIN RuleOrder :
                       /\ RuleOrder[i] \in Matching(shape)
                       /\ \A j \in 1..(i - 1) : RuleOrder[j] \notin Matching(shape)]

\* C24: the one event emitted for a line is that of the first matching rule
\* in the order download, iteration, validation, save, completion, and no
\* event when no rule matches; so an iteration marker with "Val loss" gives
\* the iteration event, "Adapters saved" gives the save event (95), and
\* "hello world" gives nothing.
C24_FirstMatchingRuleWins ==
    extract.done =>
        /\ extract.event.kind = FirstRule(extract.shape)
        /\ extract.event.kind = "none" <=> extract.event = NoEvent
        /\ extract.event.kind = "download" =>
              extract.event.progress = Pct(50) + extract.k
        /\ extract.event.kind = "iteration" =>
              extract.event.progress = IterationProgress(extract.k)
        /\ extract.event.kind = "validation" =>
              extract.event.progress = NoProgress
        /\ extract.event.kind = "save" => extract.event.progress = Pct(95)
        /\ extract.event.kind = "completion" => extract.event.progress = Pct(100)
        /\ extract.shape = <<"iter", "val_loss">> => extract.event.kind = "iteration"
        /\ extract.shape = <<"adapters_saved">> =>
              extract.event.kind = "save" /\ extract.event.progress = Pct(95)
        /\ extract.shape = <<"other">> => extract.event = NoEvent

\* C24 witness: a line with a "Val loss" text followed by an iteration marker
\* was parsed, and the iteration event was emitted.
C24_Witness ==
    /\ extract.done
    /\ extract.shape = <<"val_loss", "iter">>
    /\ extract.event.kind = "iteration"
    /\ extract.event.step = "Training iteration 50/100"
====
